---------------------------- MODULE Spec2Model ----------------------------
(***************************************************************************)
(* Model of the forecast engine of Axels-Finances: calendar-date           *)
(* arithmetic (lib/date), pay computation, the income / bonus / expense    *)
(* event generators and buildForecast (lib/forecast).                      *)
(*                                                                         *)
(* Representation                                                          *)
(*   Date        a local-midnight JS Date: [y, m, d] with m in 1..12, or   *)
(*               InvalidDate (a Date whose time value is NaN).             *)
(*   ISO string  a YYYY-MM-DD string as the integer y*10000 + m*100 + d    *)
(*               (string order of zero-padded dates = integer order);      *)
(*               EmptyStr is '' and BadStr a non-numeric string.           *)
(*   JS number   [k, v]: k = "num" (finite, value v), "nan", "inf",        *)
(*               "null" or "undefined".                                    *)
(*   money       integers in units of 1/10000 dollar (1/100 cent), so that *)
(*               roundToCents is a real rounding.                          *)
(*   tz          sign of the runtime's offset from UTC (east positive).    *)
(***************************************************************************)
EXTENDS Integers, Sequences, FiniteSets, TLC

VARIABLES
    tz,              \* runtime time-zone offset sign: -1, 0, 1
    horizonStart,    \* Date
    horizonEnd,      \* Date
    pc,              \* position of the running call
    config,          \* PaycheckConfig of the running generateIncomeEvents call
    expenses,        \* Expense[] of the running generateExpenseEvents call
    expenseIndex,    \* forEach position in expenses (1-based)
    cursor,          \* loop variable cursor
    i,               \* loop variable i
    occurrenceIndex, \* loop variable occurrenceIndex
    maxOccurrences,  \* const maxOccurrences
    netPayAmount,    \* const netPayAmount of generateIncomeEvents
    events,          \* the events array being built / returned
    bonusEvents,     \* result of generateBonusEvents
    fcEvents,        \* argument events of buildForecast
    startingBalance, \* argument startingBalance of buildForecast
    rows,            \* result of buildForecast
    args,            \* arguments of the running library call
    returned,        \* value the library call returned
    data,            \* App state data
    storedData,      \* localStorage item STORAGE_KEY
    storedBackups,   \* localStorage item BACKUP_KEY
    now,             \* the clock new Date() reads
    cloudUpdatedAt,  \* updated_at of the cloud row of the sync key
    lastLoadedCloudUpdatedAt, \* App state lastLoadedCloudUpdatedAt
    runs             \* the runs of the autosave effect's timer callback

vars == <<tz, horizonStart, horizonEnd, pc, config, expenses, expenseIndex,
          cursor, i, occurrenceIndex, maxOccurrences, netPayAmount, events,
          bonusEvents, fcEvents, startingBalance, rows, args, returned,
          data, storedData, storedBackups, now, cloudUpdatedAt,
          lastLoadedCloudUpdatedAt, runs>>

genVars == <<config, expenses, expenseIndex, cursor, i, occurrenceIndex,
             maxOccurrences, netPayAmount, events, bonusEvents>>

fcVars == <<fcEvents, startingBalance, rows>>

libVars == <<args, returned>>

storageVars == <<data, storedData, storedBackups>>

syncVars == <<cloudUpdatedAt, lastLoadedCloudUpdatedAt, runs>>

appVars == <<storageVars, now, syncVars>>

-----------------------------------------------------------------------------
(* JS numbers *)

\* no library call has been made
NoCall == [op |-> "none"]

Num(v) == [k |-> "num", v |-> v]

NaN == [k |-> "nan", v |-> 0]

POSITIVE_INFINITY == [k |-> "inf", v |-> 1]

Null == [k |-> "null", v |-> 0]

Undefined == [k |-> "undefined", v |-> 0]

\* Number.isFinite(x): false for null, undefined, NaN and the infinities
IsFinite(x) == x.k = "num"

\* x ?? fallback
Coalesce(x, fallback) == IF x.k \in {"null", "undefined"} THEN fallback ELSE x

-----------------------------------------------------------------------------
(* lib/date *)

InvalidDate == [y |-> 0, m |-> 0, d |-> 0]

isValidDate(date) == date # InvalidDate

IsLeapYear(y) == (y % 4 = 0 /\ y % 100 # 0) \/ y % 400 = 0

DaysInMonth(y, m) ==
    IF m = 2 THEN (IF IsLeapYear(y) THEN 29 ELSE 28)
    ELSE IF m \in {4, 6, 9, 11} THEN 30 ELSE 31

RECURSIVE NormalizeDay(_, _, _)
\* day overflow / underflow of the Date constructor and of setDate
NormalizeDay(y, m, d) ==
    IF d < 1 THEN
        (IF m = 1 THEN NormalizeDay(y - 1, 12, d + 31)
         ELSE NormalizeDay(y, m - 1, d + DaysInMonth(y, m - 1)))
    ELSE IF d > DaysInMonth(y, m) THEN
        (IF m = 12 THEN NormalizeDay(y + 1, 1, d - 31)
         ELSE NormalizeDay(y, m + 1, d - DaysInMonth(y, m)))
    ELSE [y |-> y, m |-> m, d |-> d]

\* new Date(year, monthIndex, day): monthIndex is 0-based and may overflow;
\* years 0..99 mean 1900..1999
NewDate(year, monthIndex, day) ==
    LET yy == IF year >= 0 /\ year <= 99 THEN 1900 + year ELSE year
    IN  NormalizeDay(yy + (monthIndex \div 12), (monthIndex % 12) + 1, day)

\* date.setDate(day): the day may overflow the month; unlike the constructor
\* it keeps a year 0..99 as it is
SetDate(date, day) == NormalizeDay(date.y, date.m, day)

\* Date comparison by time value; any comparison with an invalid Date is false
DateKey(date) == date.y * 10000 + date.m * 100 + date.d

DateGT(a, b) == isValidDate(a) /\ isValidDate(b) /\ DateKey(a) > DateKey(b)

DateGE(a, b) == isValidDate(a) /\ isValidDate(b) /\ DateKey(a) >= DateKey(b)

DateLT(a, b) == DateGT(b, a)

startOfDay(date) ==
    IF isValidDate(date) THEN NewDate(date.y, date.m - 1, date.d) ELSE InvalidDate

EmptyStr == 0

BadStr == 99999999

\* toISOString().slice(0, 10) is the UTC calendar day of local midnight: east
\* of UTC that instant still belongs to the previous UTC day
toISODate(date) ==
    LET d == startOfDay(date)
        u == IF tz > 0 THEN NormalizeDay(d.y, d.m, d.d - 1) ELSE d
    IN  DateKey(u)

\* split('-').map(Number): '' gives [0] (so year 0, month and day defaulted),
\* a non-numeric string gives NaN and an invalid Date
parseISODate(dateString) ==
    IF dateString = BadStr THEN InvalidDate
    ELSE IF dateString = EmptyStr THEN NewDate(0, 0, 1)
    ELSE NewDate(dateString \div 10000, ((dateString \div 100) % 100) - 1,
                 dateString % 100)

addDays(date, days) ==
    IF ~isValidDate(date) THEN InvalidDate
    ELSE LET next == startOfDay(date)
         IN  SetDate(next, next.d + days)

MinInt(a, b) == IF a <= b THEN a ELSE b

MaxInt(a, b) == IF a >= b THEN a ELSE b

addMonths(date, months) ==
    IF ~isValidDate(date) THEN InvalidDate
    ELSE LET base == startOfDay(date)
             originalDate == base.d
             result == NewDate(base.y, (base.m - 1) + months, 1)
             maxDay == NewDate(result.y, (result.m - 1) + 1, 0).d
         IN  SetDate(result, MinInt(originalDate, maxDay))

addYears(date, years) ==
    IF ~isValidDate(date) THEN InvalidDate
    ELSE LET base == startOfDay(date)
             result == NewDate(base.y + years, base.m - 1, 1)
             maxDay == NewDate(result.y, (result.m - 1) + 1, 0).d
         IN  SetDate(result, MinInt(base.d, maxDay))

-----------------------------------------------------------------------------
(* lib/forecast: pay computation *)

\* faulty variant: the value is cut to whole cents
roundDownToCents(value) ==
    IF IsFinite(value) THEN Num((value.v \div 100) * 100) ELSE value

\* Math.round((value + Number.EPSILON) * 100) / 100 on a value in 1/100 cent:
\* nearest cent, a half rounding up; NaN and the infinities pass through
roundToCents(value) ==
    IF IsFinite(value) THEN Num(((value.v + 50) \div 100) * 100) ELSE value

\* faulty variant: the quotient is cut to whole cents
roundQuotientDownToCents(num, den) == Num((num \div (100 * den)) * 100)

\* roundToCents(num / den) for an exact quotient of money by an integer
roundQuotientToCents(num, den) ==
    Num(((2 * num + 100 * den) \div (200 * den)) * 100)

\* hourlyRate in money per hour, hoursPerWeek in whole hours
computeGrossPayFromHourly(payFrequency, hourlyRate, hoursPerWeek) ==
    IF \/ ~IsFinite(hourlyRate)
       \/ ~IsFinite(hoursPerWeek)
       \/ Coalesce(hourlyRate, Num(0)).v <= 0
       \/ Coalesce(hoursPerWeek, Num(0)).v <= 0
    THEN NaN
    ELSE LET weeklyGross == hourlyRate.v * hoursPerWeek.v
         IN  CASE payFrequency = "weekly" -> roundToCents(Num(weeklyGross))
               [] payFrequency = "biweekly" -> roundToCents(Num(weeklyGross * 2))
               [] payFrequency = "semimonthly" -> roundQuotientToCents(weeklyGross * 52, 24)
               [] payFrequency = "monthly" -> roundQuotientToCents(weeklyGross * 52, 12)
               [] OTHER -> roundToCents(Num(weeklyGross))

\* faulty variant: a negative line value is added like any other
LineContributionUnguarded(line, grossPay) ==
    IF ~IsFinite(line.value) THEN 0
    ELSE IF line.type = "percentOfGross" THEN (line.value.v * grossPay) \div 100
    ELSE line.value.v

\* one line's contribution; a percentOfGross value is in whole percent and
\* grossPay in whole cents, so (value / 100) * grossPay is exact
LineContribution(line, grossPay) ==
    IF ~IsFinite(line.value) \/ line.value.v < 0 THEN 0
    ELSE IF line.type = "percentOfGross" THEN (line.value.v * grossPay) \div 100
    ELSE line.value.v

RECURSIVE sumDeductionLines(_, _)
sumDeductionLines(lines, grossPay) ==
    IF lines = <<>> THEN 0
    ELSE sumDeductionLines(SubSeq(lines, 1, Len(lines) - 1), grossPay)
         + LineContribution(lines[Len(lines)], grossPay)

sumTaxWithheldLines(lines, grossPay) == sumDeductionLines(lines, grossPay)

\* faulty variant: without a gross pay the totals are reported as 0
ZeroTotalsBreakdown(grossPay) ==
    [grossPay |-> grossPay, pretaxTotal |-> Num(0), taxesTotal |-> Num(0),
     posttaxTotal |-> Num(0), loanRepaymentAmount |-> Num(0),
     totalWithheldDeducted |-> Num(0), netPay |-> NaN]

\* the return value when grossPay is not a finite number > 0
AllNaNBreakdown(grossPay) ==
    [grossPay |-> grossPay, pretaxTotal |-> NaN, taxesTotal |-> NaN,
     posttaxTotal |-> NaN, loanRepaymentAmount |-> NaN,
     totalWithheldDeducted |-> NaN, netPay |-> NaN]

computeNetPayBreakdown(cfg) ==
    IF cfg.paycheckInputMode = "net" THEN
        [grossPay |-> Num(0), pretaxTotal |-> Num(0), taxesTotal |-> Num(0),
         posttaxTotal |-> Num(0), loanRepaymentAmount |-> Num(0),
         totalWithheldDeducted |-> Num(0),
         netPay |-> roundToCents(Coalesce(cfg.netPayAmount, NaN))]
    ELSE
        LET grossPay ==
                IF cfg.grossInputMode = "hourly"
                THEN computeGrossPayFromHourly(cfg.payFrequency, cfg.hourlyRate,
                                               cfg.hoursPerWeek)
                ELSE Coalesce(cfg.grossPayAmount, NaN)
        IN  IF ~IsFinite(grossPay) \/ grossPay.v <= 0 THEN AllNaNBreakdown(grossPay)
            ELSE
              LET pretaxTotal == sumDeductionLines(cfg.pretaxDeductions, grossPay.v)
                  taxesTotal == sumTaxWithheldLines(cfg.taxesWithheld, grossPay.v)
                  posttaxTotal == sumDeductionLines(cfg.posttaxDeductions, grossPay.v)
                  loanRepaymentAmount ==
                      IF IsFinite(cfg.loanRepaymentAmount)
                      THEN Num(MaxInt(0, cfg.loanRepaymentAmount.v))
                      ELSE NaN
                  totalWithheldDeducted ==
                      IF IsFinite(loanRepaymentAmount)
                      THEN Num(pretaxTotal + taxesTotal + posttaxTotal
                               + loanRepaymentAmount.v)
                      ELSE NaN
                  netPay ==
                      IF IsFinite(totalWithheldDeducted)
                      THEN Num(grossPay.v - totalWithheldDeducted.v)
                      ELSE NaN
              IN  [grossPay |-> roundToCents(grossPay),
                   pretaxTotal |-> roundToCents(Num(pretaxTotal)),
                   taxesTotal |-> roundToCents(Num(taxesTotal)),
                   posttaxTotal |-> roundToCents(Num(posttaxTotal)),
                   loanRepaymentAmount |-> roundToCents(loanRepaymentAmount),
                   totalWithheldDeducted |-> roundToCents(totalWithheldDeducted),
                   netPay |-> roundToCents(netPay)]

\* faulty variant: an undetermined net pay is coerced to 0
computeNetPayOrZero(cfg) ==
    IF IsFinite(computeNetPayBreakdown(cfg).netPay)
    THEN computeNetPayBreakdown(cfg).netPay
    ELSE Num(0)

computeNetPay(cfg) == computeNetPayBreakdown(cfg).netPay

-----------------------------------------------------------------------------
(* lib/forecast: recurrence steps *)

\* faulty variant: the 15th is treated like the 16th
addSemimonthlyStrict(date) ==
    IF ~isValidDate(date) THEN InvalidDate
    ELSE IF date.d <= 1 THEN NewDate(date.y, date.m - 1, 15)
    ELSE IF date.d < 15 THEN NewDate(date.y, (date.m - 1) + 1, 1)
    ELSE NewDate(date.y, (date.m - 1) + 1, 15)

addSemimonthly(date) ==
    IF ~isValidDate(date) THEN InvalidDate
    ELSE IF date.d <= 1 THEN NewDate(date.y, date.m - 1, 15)
    ELSE IF date.d <= 15 THEN NewDate(date.y, (date.m - 1) + 1, 1)
    ELSE NewDate(date.y, (date.m - 1) + 1, 15)

advanceIncomeDate(date, frequency) ==
    CASE frequency = "weekly" -> addDays(date, 7)
      [] frequency = "biweekly" -> addDays(date, 14)
      [] frequency = "monthly" -> addMonths(date, 1)
      [] frequency = "semimonthly" -> addSemimonthly(date)
      [] OTHER -> addDays(date, 7)

advanceExpenseDate(date, repeat) ==
    CASE repeat = "none" -> addYears(date, 1000)
      [] repeat = "weekly" -> addDays(date, 7)
      [] repeat = "biweekly" -> addDays(date, 14)
      [] repeat = "monthly" -> addMonths(date, 1)
      [] repeat = "yearly" -> addYears(date, 1)
      [] OTHER -> addYears(date, 1000)

-----------------------------------------------------------------------------
(* ForecastEvent *)

NoSource == "-"

\* id is the template string kept as its parts: kind, source expense id, date
\* (or month key) and loop index
IncomeEvent(date, idx, amount) ==
    [id |-> [kind |-> "income", src |-> NoSource, date |-> date, idx |-> idx],
     date |-> date, type |-> "income", item |-> "Paycheck",
     category |-> "income", amount |-> amount, sourceId |-> NoSource]

BonusEvent(monthKey, date, amount) ==
    [id |-> [kind |-> "bonus", src |-> NoSource, date |-> monthKey, idx |-> 0],
     date |-> date, type |-> "income", item |-> "Monthly Bonus",
     category |-> "income", amount |-> amount, sourceId |-> NoSource]

ExpenseEvent(expense, kind, date, idx) ==
    [id |-> [kind |-> kind, src |-> expense.id, date |-> date, idx |-> idx],
     date |-> date, type |-> "expense", item |-> expense.name,
     category |-> expense.category, amount |-> expense.amount,
     sourceId |-> expense.id]

-----------------------------------------------------------------------------
(* lib/forecast: generateIncomeEvents *)

MaxIterations == 5000

\* for (let i = 0; i < 5000; ...) { if (cursor > horizonEnd) break; ...
IncomeLoopContinues == i < MaxIterations /\ ~DateGT(cursor, horizonEnd)

\* if (cursor >= horizonStart) events.push(...)
InHorizonStart(date) == DateGE(date, horizonStart)

CallGenerateIncomeEvents(cfg) ==
    /\ pc = "idle"
    /\ config' = cfg
    /\ events' = <<>>
    /\ i' = 0
    /\ IF \/ cfg.nextPayDate = EmptyStr
          \/ ~IsFinite(computeNetPay(cfg))
          \/ ~isValidDate(parseISODate(cfg.nextPayDate))
       THEN /\ pc' = "incomeDone"
            /\ UNCHANGED <<cursor, netPayAmount>>
       ELSE /\ pc' = "incomeLoop"
            /\ netPayAmount' = computeNetPay(cfg)
            /\ cursor' = parseISODate(cfg.nextPayDate)
    /\ UNCHANGED appVars
    /\ UNCHANGED <<tz, horizonStart, horizonEnd, expenses, expenseIndex,
                   occurrenceIndex, maxOccurrences, bonusEvents>>
    /\ UNCHANGED fcVars
    /\ UNCHANGED libVars

IncomeLoopStep ==
    /\ pc = "incomeLoop"
    /\ IF IncomeLoopContinues
       THEN /\ events' = IF InHorizonStart(cursor)
                         THEN Append(events, IncomeEvent(toISODate(cursor), i,
                                                         netPayAmount.v))
                         ELSE events
            /\ cursor' = advanceIncomeDate(cursor, config.payFrequency)
            /\ i' = i + 1
            /\ pc' = pc
       ELSE /\ pc' = "incomeDone"
            /\ UNCHANGED <<events, cursor, i>>
    /\ UNCHANGED appVars
    /\ UNCHANGED <<tz, horizonStart, horizonEnd, config, expenses, expenseIndex,
                   occurrenceIndex, maxOccurrences, netPayAmount, bonusEvents>>
    /\ UNCHANGED fcVars
    /\ UNCHANGED libVars

-----------------------------------------------------------------------------
(* lib/forecast: generateBonusEvents *)

\* incomeEvent.date.slice(0, 7)
MonthKey(date) == date \div 100

RECURSIVE SortAscending(_)
\* the elements of a finite set of integers in ascending order
SortAscending(S) ==
    IF S = {} THEN <<>>
    ELSE LET lo == CHOOSE x \in S : \A y \in S : x <= y
         IN  <<lo>> \o SortAscending(S \ {lo})

\* faulty variant: the last income event of the month in list order wins
LastPaycheckOfMonthInListOrder(incomeEvents, monthKey) ==
    LET at == {n \in 1..Len(incomeEvents) : MonthKey(incomeEvents[n].date) = monthKey}
    IN  IF at = {} THEN EmptyStr
        ELSE incomeEvents[CHOOSE n \in at : \A x \in at : x <= n].date

RECURSIVE LastPaycheckOfMonth(_, _)
\* lastPaycheckByMonth.get(monthKey) after the forEach over incomeEvents; a
\* missing entry (undefined) is falsy like ''
LastPaycheckOfMonth(incomeEvents, monthKey) ==
    IF incomeEvents = <<>> THEN EmptyStr
    ELSE LET previous == LastPaycheckOfMonth(SubSeq(incomeEvents, 1, Len(incomeEvents) - 1),
                                             monthKey)
             incomeEvent == incomeEvents[Len(incomeEvents)]
         IN  IF /\ MonthKey(incomeEvent.date) = monthKey
                /\ (previous = EmptyStr \/ incomeEvent.date > previous)
             THEN incomeEvent.date
             ELSE previous

\* config.monthlyBonusAmount || 0
BonusAmount(cfg) ==
    IF IsFinite(cfg.monthlyBonusAmount) THEN cfg.monthlyBonusAmount.v ELSE 0

generateBonusEvents(cfg, incomeEvents) ==
    IF ~(BonusAmount(cfg) > 0) THEN <<>>
    ELSE LET keys == SortAscending({MonthKey(incomeEvents[n].date) :
                                       n \in 1..Len(incomeEvents)})
         IN  [n \in 1..Len(keys) |->
                 BonusEvent(keys[n], LastPaycheckOfMonth(incomeEvents, keys[n]),
                            BonusAmount(cfg))]

\* ForecastPage: generateBonusEvents(data.paycheckConfig, incomeEvents)
CallGenerateBonusEvents ==
    /\ pc = "incomeDone"
    /\ bonusEvents' = generateBonusEvents(config, events)
    /\ pc' = "bonusDone"
    /\ UNCHANGED appVars
    /\ UNCHANGED <<tz, horizonStart, horizonEnd, config, expenses, expenseIndex,
                   cursor, i, occurrenceIndex, maxOccurrences, netPayAmount,
                   events>>
    /\ UNCHANGED fcVars
    /\ UNCHANGED libVars

-----------------------------------------------------------------------------
(* lib/forecast: generateExpenseEvents *)

\* repeatCount is kept in halves, so that Math.floor is a real floor
MathFloorHalves(x) == x.v \div 2

\* expense.variableDatesEnabled && Array.isArray(...) && length > 0
UsesVariableDates(expense) ==
    expense.variableDatesEnabled /\ Len(expense.variableDueDates) > 0

RECURSIVE SortStrings(_)
\* [...variableDueDates].sort((a, b) => a.localeCompare(b)): insertion keeps
\* equal strings in input order
SortStrings(seq) ==
    IF seq = <<>> THEN <<>>
    ELSE LET rest == SortStrings(SubSeq(seq, 1, Len(seq) - 1))
             x == seq[Len(seq)]
             k == Cardinality({n \in 1..Len(rest) : rest[n] <= x})
         IN  SubSeq(rest, 1, k) \o <<x>> \o SubSeq(rest, k + 1, Len(rest))

\* the return condition of the dueDates.forEach callback
VariableDateSkipped(date) ==
    LET due == parseISODate(date)
    IN  ~isValidDate(due) \/ DateLT(due, horizonStart) \/ DateGT(due, horizonEnd)

RECURSIVE VariableEvents(_, _, _)
\* the events pushed by dueDates.forEach for the entries 1..n
VariableEvents(expense, dueDates, n) ==
    IF n = 0 THEN <<>>
    ELSE VariableEvents(expense, dueDates, n - 1)
         \o (IF VariableDateSkipped(dueDates[n]) THEN <<>>
             ELSE <<ExpenseEvent(expense, "variable", dueDates[n], n - 1)>>)

\* faulty variant: a repeat count allows one occurrence too many
MaxOccurrencesOneMore(expense) ==
    IF expense.repeat = "none" THEN Num(1)
    ELSE IF IsFinite(expense.repeatCount)
            /\ Coalesce(expense.repeatCount, Num(0)).v > 0
         THEN Num(MathFloorHalves(Coalesce(expense.repeatCount, Num(0))) + 1)
         ELSE POSITIVE_INFINITY

MaxOccurrences(expense) ==
    IF expense.repeat = "none" THEN Num(1)
    ELSE IF IsFinite(expense.repeatCount)
            /\ Coalesce(expense.repeatCount, Num(0)).v > 0
         THEN Num(MathFloorHalves(Coalesce(expense.repeatCount, Num(0))))
         ELSE POSITIVE_INFINITY

\* faulty variant: the walk has no iteration cap
ExpenseLoopContinuesUncapped ==
    /\ ~(IsFinite(maxOccurrences) /\ occurrenceIndex >= maxOccurrences.v)
    /\ ~DateGT(cursor, horizonEnd)

\* the loop header and the two breaks before the push
ExpenseLoopContinues ==
    /\ i < MaxIterations
    /\ ~(IsFinite(maxOccurrences) /\ occurrenceIndex >= maxOccurrences.v)
    /\ ~DateGT(cursor, horizonEnd)

CallGenerateExpenseEvents(list) ==
    /\ pc = "idle"
    /\ expenses' = list
    /\ expenseIndex' = 1
    /\ events' = <<>>
    /\ pc' = "expenseEach"
    /\ UNCHANGED appVars
    /\ UNCHANGED <<tz, horizonStart, horizonEnd, config, cursor, i,
                   occurrenceIndex, maxOccurrences, netPayAmount, bonusEvents>>
    /\ UNCHANGED fcVars
    /\ UNCHANGED libVars

\* one run of the expenses.forEach callback up to its loop, or the return of
\* generateExpenseEvents after the last expense
ExpenseEach ==
    /\ pc = "expenseEach"
    /\ IF expenseIndex > Len(expenses)
       THEN /\ pc' = "expenseDone"
            /\ UNCHANGED <<expenseIndex, events, cursor, i, occurrenceIndex,
                           maxOccurrences>>
       ELSE LET expense == expenses[expenseIndex]
            IN  IF UsesVariableDates(expense)
                THEN LET dueDates == SortStrings(expense.variableDueDates)
                     IN  /\ events' = events \o VariableEvents(expense, dueDates,
                                                               Len(dueDates))
                         /\ expenseIndex' = expenseIndex + 1
                         /\ pc' = pc
                         /\ UNCHANGED <<cursor, i, occurrenceIndex, maxOccurrences>>
                ELSE /\ cursor' = parseISODate(expense.firstDueDate)
                     /\ maxOccurrences' = MaxOccurrences(expense)
                     /\ occurrenceIndex' = 0
                     /\ i' = 0
                     /\ pc' = "expenseLoop"
                     /\ UNCHANGED <<expenseIndex, events>>
    /\ UNCHANGED appVars
    /\ UNCHANGED <<tz, horizonStart, horizonEnd, config, expenses, netPayAmount,
                   bonusEvents>>
    /\ UNCHANGED fcVars
    /\ UNCHANGED libVars

ExpenseLoopStep ==
    /\ pc = "expenseLoop"
    /\ LET expense == expenses[expenseIndex]
           pushed == IF InHorizonStart(cursor)
                     THEN Append(events, ExpenseEvent(expense, "expense",
                                                      toISODate(cursor), i))
                     ELSE events
       IN  IF ~ExpenseLoopContinues
           THEN /\ pc' = "expenseEach"
                /\ expenseIndex' = expenseIndex + 1
                /\ UNCHANGED <<events, cursor, i, occurrenceIndex>>
           ELSE IF expense.repeat = "none"
           THEN /\ events' = pushed
                /\ pc' = "expenseEach"
                /\ expenseIndex' = expenseIndex + 1
                /\ UNCHANGED <<cursor, i, occurrenceIndex>>
           ELSE /\ events' = pushed
                /\ occurrenceIndex' = occurrenceIndex + 1
                /\ cursor' = advanceExpenseDate(cursor, expense.repeat)
                /\ i' = i + 1
                /\ pc' = pc
                /\ UNCHANGED expenseIndex
    /\ UNCHANGED appVars
    /\ UNCHANGED <<tz, horizonStart, horizonEnd, config, expenses,
                   maxOccurrences, netPayAmount, bonusEvents>>
    /\ UNCHANGED fcVars
    /\ UNCHANGED libVars

-----------------------------------------------------------------------------
(* Inputs of the generators *)

HorizonMonths == 2

MaxRepeatCount == 3

MaxExpenses == 2

TzOffsets == {-1, 0, 1}

\* ForecastPage's shape [start, addMonths(start, n)] on a month end before a
\* leap February and in the middle of a month, and a one-day horizon
Horizons ==
    {[s |-> NewDate(2024, 0, 31), e |-> addMonths(NewDate(2024, 0, 31), HorizonMonths)],
     [s |-> NewDate(2024, 0, 17), e |-> addMonths(NewDate(2024, 0, 17), HorizonMonths)],
     [s |-> NewDate(2024, 1, 29), e |-> NewDate(2024, 1, 29)]}

\* weekly anchor whose 4998th step is 2024-01-31
FarAnchor == 19280425

OverCapCount == Num(2 * (MaxIterations + 1000))

Money(dollars) == dollars * 10000

Line(type, value) == [type |-> type, value |-> value]

PayPart(mode, gmode, net, gross, rate, hours, pre, tax, post, loan) ==
    [paycheckInputMode |-> mode, grossInputMode |-> gmode, netPayAmount |-> net,
     grossPayAmount |-> gross, hourlyRate |-> rate, hoursPerWeek |-> hours,
     pretaxDeductions |-> pre, taxesWithheld |-> tax, posttaxDeductions |-> post,
     loanRepaymentAmount |-> loan]

SomeLines ==
    <<Line("percentOfGross", Num(5)), Line("fixed", Num(Money(300) + 33)),
      Line("fixed", NaN), Line("fixed", Num(0 - Money(5)))>>

PayParts ==
    {PayPart("net", "direct", Num(Money(1500) + 50), Null, Null, Null, <<>>, SomeLines, <<>>, Num(0)),
     PayPart("net", "direct", Null, Num(Money(2000)), Null, Null, <<>>, <<>>, <<>>, Num(0)),
     PayPart("net", "hourly", NaN, Null, Null, Null, <<>>, <<>>, <<>>, NaN),
     PayPart("net", "direct", POSITIVE_INFINITY, Null, Null, Null, <<>>, <<>>, <<>>, Num(0)),
     PayPart("net", "direct", Num(0 - Money(50)), Null, Null, Null, <<>>, <<>>, <<>>, NaN),
     PayPart("calculate", "direct", Null, Num(Money(2000)), Null, Null, SomeLines, SomeLines, <<>>, Num(Money(25))),
     PayPart("calculate", "direct", Num(Money(1500)), Num(0), Null, Null, <<>>, <<>>, <<>>, Num(0)),
     PayPart("calculate", "direct", Num(Money(1500)), Null, Num(Money(20)), Num(40), <<>>, <<>>, <<>>, Num(0)),
     PayPart("calculate", "direct", Null, POSITIVE_INFINITY, Null, Null, <<>>, <<>>, <<>>, Num(0)),
     PayPart("calculate", "hourly", Null, Null, Num(Money(20)), Num(40), <<>>, SomeLines, SomeLines, Num(0 - Money(10))),
     PayPart("calculate", "hourly", Null, Num(Money(2000)), Null, Num(40), <<>>, <<>>, <<>>, Num(0)),
     PayPart("calculate", "direct", Null, Num(Money(2000)), Null, Null, <<>>, <<>>, <<>>, NaN),
     PayPart("calculate", "direct", Null, Num(Money(100)), Null, Null, <<>>, SomeLines, <<>>, Num(0))}

PayFrequencies == {"weekly", "biweekly", "semimonthly", "monthly"}

NextPayDates ==
    {EmptyStr, BadStr, 20240101, 20240102, 20240117, 20240131, 20240229,
     20240331, 20240401}

BonusAmounts == {Undefined, Num(Money(50))}

WithSchedule(part, freq, date, bonus) ==
    [paycheckInputMode |-> part.paycheckInputMode,
     grossInputMode |-> part.grossInputMode,
     netPayAmount |-> part.netPayAmount,
     grossPayAmount |-> part.grossPayAmount,
     hourlyRate |-> part.hourlyRate,
     hoursPerWeek |-> part.hoursPerWeek,
     pretaxDeductions |-> part.pretaxDeductions,
     taxesWithheld |-> part.taxesWithheld,
     posttaxDeductions |-> part.posttaxDeductions,
     loanRepaymentAmount |-> part.loanRepaymentAmount,
     payFrequency |-> freq, nextPayDate |-> date, monthlyBonusAmount |-> bonus]

NetPart == PayPart("net", "direct", Num(Money(1500)), Null, Null, Null, <<>>, <<>>, <<>>, Num(0))

Configs ==
    {WithSchedule(p, f, d, b) : p \in PayParts, f \in PayFrequencies,
                                d \in NextPayDates, b \in BonusAmounts}
    \cup {WithSchedule(NetPart, "weekly", FarAnchor, Num(Money(50)))}

NoConfig == WithSchedule(NetPart, "weekly", EmptyStr, Undefined)

Repeats == {"none", "weekly", "biweekly", "monthly", "yearly"}

FirstDueDates ==
    {20230228, 20231231, 20240124, 20240131, 20240215, 20240331, 20240401}

RepeatCounts ==
    {Undefined, NaN, Num(0), Num(0 - 2), Num(1)}
    \cup {Num(2 * n) : n \in 1..MaxRepeatCount}

VariableModes ==
    {[enabled |-> FALSE, dates |-> <<>>],
     [enabled |-> FALSE, dates |-> <<20240315, 20240131>>],
     [enabled |-> TRUE, dates |-> <<>>],
     [enabled |-> TRUE, dates |-> <<20240315, 20240131>>],
     [enabled |-> TRUE, dates |-> <<20240401, BadStr, 20240229, 20240229, 20230101>>]}

Expense(first, repeat, count, mode) ==
    [id |-> "e1", name |-> "Rent", amount |-> Money(1200), category |-> "rent",
     firstDueDate |-> first, repeat |-> repeat, repeatCount |-> count,
     variableDatesEnabled |-> mode.enabled, variableDueDates |-> mode.dates]

FixedMode == [enabled |-> FALSE, dates |-> <<>>]

ExpensePool ==
    {Expense(d, r, c, m) : d \in FirstDueDates, r \in Repeats,
                           c \in RepeatCounts, m \in VariableModes}
    \cup {Expense(BadStr, r, c, FixedMode) : r \in {"none", "weekly"},
                                             c \in {Undefined, Num(4)}}
    \cup {Expense(FarAnchor, "weekly", c, FixedMode) : c \in {Undefined, OverCapCount}}

\* the expenses combined into longer lists; position n gets id, name and
\* category n
ListPool ==
    {Expense(20231231, "monthly", Undefined, FixedMode),
     Expense(20240124, "weekly", Num(4), FixedMode),
     Expense(20240215, "none", Undefined, [enabled |-> TRUE, dates |-> <<20240315, 20240131>>]),
     Expense(20240229, "none", Num(6), [enabled |-> TRUE, dates |-> <<>>])}

ExpenseIds == <<"e1", "e2", "e3", "e4">>

ExpenseNames == <<"Rent", "Gym", "Water", "Rent">>

ExpenseCategories == <<"rent", "health", "utilities", "rent">>

AtPosition(e, n) ==
    [e EXCEPT !.id = ExpenseIds[n], !.name = ExpenseNames[n],
              !.category = ExpenseCategories[n], !.amount = Money(100 * n)]

ExpenseLists ==
    {<<>>} \cup {<<e>> : e \in ExpensePool}
    \cup UNION {{[n \in 1..len |-> AtPosition(f[n], n)] : f \in [1..len -> ListPool]} :
                   len \in 2..MaxExpenses}

-----------------------------------------------------------------------------
(* lib/storage: sanitizeAppData, loadBackups, saveAppData *)

MAX_BACKUPS == 20

\* AppData reduced to two of its numbers: paycheckConfig.monthlyBonusAmount
\* (in dollars) and the repeatCount of its one expense (in halves)
AppData(bonus, count) == [monthlyBonusAmount |-> bonus, repeatCount |-> count]

\* getDefaultAppData(), with one expense that does not repeat
DefaultAppData == AppData(Num(0), Undefined)

sanitizeAppData(input) ==
    [monthlyBonusAmount |->
         IF IsFinite(input.monthlyBonusAmount)
         THEN Num(MaxInt(0, input.monthlyBonusAmount.v))
         ELSE Num(0),
     repeatCount |->
         IF IsFinite(input.repeatCount) /\ input.repeatCount.v > 0
         THEN Num(2 * MathFloorHalves(input.repeatCount))
         ELSE Undefined]

\* JSON.stringify of a number property: the digits of a finite number, null
\* for NaN and the infinities, and no key at all for undefined
JSONStringifyNumber(x) ==
    IF x.k = "num" THEN [t |-> "digits", v |-> x.v]
    ELSE IF x.k = "undefined" THEN [t |-> "no key", v |-> 0]
    ELSE [t |-> "null", v |-> 0]

\* JSON.parse of it: a missing key reads as undefined
JSONParseNumber(text) ==
    IF text.t = "digits" THEN Num(text.v)
    ELSE IF text.t = "no key" THEN Undefined
    ELSE Null

JSONStringify(payload) ==
    [monthlyBonusAmount |-> JSONStringifyNumber(payload.monthlyBonusAmount),
     repeatCount |-> JSONStringifyNumber(payload.repeatCount)]

JSONParse(text) ==
    [monthlyBonusAmount |-> JSONParseNumber(text.monthlyBonusAmount),
     repeatCount |-> JSONParseNumber(text.repeatCount)]

\* localStorage.getItem of a key never set
NoItem == [t |-> "null"]

\* storedBackups is the array written under BACKUP_KEY (empty when the key
\* was never set); every entry has a savedAt string and a payload of
\* schemaVersion 2, so none is filtered out
loadBackups ==
    [n \in 1..Len(storedBackups) |->
        [savedAt |-> storedBackups[n].savedAt,
         payload |-> sanitizeAppData(JSONParse(storedBackups[n].payload))]]

\* array.slice(-n)
SliceLast(array, n) ==
    IF Len(array) <= n THEN array
    ELSE SubSeq(array, Len(array) - n + 1, Len(array))

\* saveAppData(data) at time now
CallSaveAppData(input) ==
    LET sanitized == sanitizeAppData(input)
        backups == loadBackups
        nextSerialized == JSONStringify(sanitized)
        unchangedBackup ==
            /\ backups # <<>>
            /\ JSONStringify(backups[Len(backups)].payload) = nextSerialized
        nextBackups ==
            SliceLast(Append(backups, [savedAt |-> now, payload |-> sanitized]),
                      MAX_BACKUPS)
    IN  /\ storedData' = nextSerialized
        /\ storedBackups' =
               IF unchangedBackup THEN storedBackups
               ELSE [n \in 1..Len(nextBackups) |->
                        [savedAt |-> nextBackups[n].savedAt,
                         payload |-> JSONStringify(nextBackups[n].payload)]]
        /\ args' = [op |-> "saveAppData", data |-> input]

InitStorage ==
    /\ data = DefaultAppData
    /\ storedData = NoItem
    /\ storedBackups = <<>>

-----------------------------------------------------------------------------
(* App: the effect that saves data, as a state machine *)

MaxSavedAt == 2

\* data the pages hand to App: a bonus and a count, the same with a negative
\* bonus, with no numbers at all, and with a count of one half
AppDataPool ==
    {AppData(Num(50), Num(4)), AppData(Num(0 - 5), Undefined),
     AppData(NaN, Num(0)), AppData(Num(0), Num(0 - 2))}

HalfCountData == AppData(Num(50), Num(1))

\* the rest of the model's state, which the app's storage and cloud sync leave alone
modelVars ==
    <<tz, horizonStart, horizonEnd, pc, config, expenses, expenseIndex, cursor,
      i, occurrenceIndex, maxOccurrences, netPayAmount, events, bonusEvents,
      fcEvents, startingBalance, rows>>

ModelAtRest ==
    /\ tz = 0
    /\ horizonStart = NewDate(2024, 0, 31)
    /\ horizonEnd = addMonths(NewDate(2024, 0, 31), HorizonMonths)
    /\ pc = "idle"
    /\ config = NoConfig
    /\ expenses = <<>>
    /\ expenseIndex = 0
    /\ cursor = InvalidDate
    /\ i = 0
    /\ occurrenceIndex = 0
    /\ maxOccurrences = Num(0)
    /\ netPayAmount = NaN
    /\ events = <<>>
    /\ bonusEvents = <<>>
    /\ fcEvents = <<>>
    /\ startingBalance = 0
    /\ rows = <<>>

\* the cloud row absent, nothing loaded and no autosave run
InitCloud ==
    /\ cloudUpdatedAt = 0
    /\ lastLoadedCloudUpdatedAt = 0
    /\ runs = <<>>

InitBackup ==
    /\ ModelAtRest
    /\ args = NoCall
    /\ returned = NoCall
    /\ data \in AppDataPool \cup {HalfCountData}
    /\ storedData = NoItem
    /\ storedBackups = <<>>
    /\ now = 0
    /\ InitCloud

\* useEffect(() => { saveAppData(data); }, [data]), also run again on a
\* remount with the same data
SaveAppData ==
    /\ CallSaveAppData(data)
    /\ UNCHANGED <<data, now, returned>>
    /\ UNCHANGED modelVars
    /\ UNCHANGED syncVars

\* a page calls onChange with other data
ChangeData ==
    /\ data \in AppDataPool
    /\ \E next \in AppDataPool \ {data} : data' = next
    /\ args' = [op |-> "setData"]
    /\ UNCHANGED <<storedData, storedBackups, now, returned>>
    /\ UNCHANGED modelVars
    /\ UNCHANGED syncVars

ClockTicks ==
    /\ now < MaxSavedAt
    /\ now' = now + 1
    /\ args' = [op |-> "tick"]
    /\ UNCHANGED <<returned>>
    /\ UNCHANGED storageVars
    /\ UNCHANGED modelVars
    /\ UNCHANGED syncVars

NextBackup ==
    \/ SaveAppData
    \/ ChangeData
    \/ ClockTicks

SpecBackup == InitBackup /\ [][NextBackup]_vars

-----------------------------------------------------------------------------
(* App: the autosave effect and the cloud row, as a state machine *)

MaxRuns == 2

MaxWrites == 4

\* a run of the timer callback: the lastLoadedCloudUpdatedAt its closure
\* holds, the remoteMeta.updatedAt it read, the answer to window.confirm and
\* the updatedAt its push returned; 0 stands for null
NoRun ==
    [pc |-> "none", lastLoadedCloudUpdatedAt |-> 0, remoteMeta |-> 0,
     confirmed |-> FALSE, saveResult |-> 0]

\* the cloud row is absent or was written at time 1, and loadInitialCloudState
\* has loaded it or failed
InitSync ==
    /\ ModelAtRest
    /\ args = NoCall
    /\ returned = NoCall
    /\ InitStorage
    /\ now \in {0, 1}
    /\ cloudUpdatedAt = now
    /\ lastLoadedCloudUpdatedAt \in {0, cloudUpdatedAt}
    /\ runs = [r \in 1..MaxRuns |-> NoRun]

\* the effect runs (data or lastLoadedCloudUpdatedAt changed): the cleanup of
\* the effect before clears its timer if it has not fired, and a new timer
\* is set whose callback closes over the current lastLoadedCloudUpdatedAt
ScheduleAutosave ==
    \E r \in 1..MaxRuns :
        /\ runs[r].pc = "none"
        /\ \A q \in 1..(r - 1) : runs[q].pc # "none"
        /\ runs' = [q \in 1..MaxRuns |->
                       IF q = r
                       THEN [NoRun EXCEPT !.pc = "timer",
                                          !.lastLoadedCloudUpdatedAt =
                                              lastLoadedCloudUpdatedAt]
                       ELSE IF runs[q].pc = "timer"
                       THEN [runs[q] EXCEPT !.pc = "cleared"]
                       ELSE runs[q]]
        /\ UNCHANGED <<cloudUpdatedAt, lastLoadedCloudUpdatedAt, now>>
        /\ UNCHANGED storageVars
        /\ UNCHANGED modelVars
        /\ UNCHANGED libVars

\* the timer fires: getCloudStateMeta reads the row, then the two tests and
\* window.confirm
CheckRemoteMeta ==
    \E r \in 1..MaxRuns, answer \in BOOLEAN :
        LET loaded == runs[r].lastLoadedCloudUpdatedAt
            remoteMeta == cloudUpdatedAt
            skipped == loaded = 0 /\ remoteMeta = 0
            asks == remoteMeta # 0 /\ (loaded = 0 \/ remoteMeta > loaded)
        IN  /\ runs[r].pc = "timer"
            /\ runs' = [runs EXCEPT
                           ![r].remoteMeta = remoteMeta,
                           ![r].confirmed = asks /\ answer,
                           ![r].pc = IF skipped \/ (asks /\ ~answer)
                                     THEN "returned" ELSE "pushing"]
            /\ UNCHANGED <<cloudUpdatedAt, lastLoadedCloudUpdatedAt, now>>
            /\ UNCHANGED storageVars
            /\ UNCHANGED modelVars
            /\ UNCHANGED libVars

\* pushAppDataToCloudWithMeta: the upsert writes the row with updated_at
\* new Date()
PushAppDataToCloud ==
    \E r \in 1..MaxRuns :
        /\ runs[r].pc = "pushing"
        /\ now < MaxWrites
        /\ now' = now + 1
        /\ cloudUpdatedAt' = now + 1
        /\ runs' = [runs EXCEPT ![r].pc = "pushed", ![r].saveResult = now + 1]
        /\ UNCHANGED lastLoadedCloudUpdatedAt
        /\ UNCHANGED storageVars
        /\ UNCHANGED modelVars
        /\ UNCHANGED libVars

\* the push returns: setLastLoadedCloudUpdatedAt(saveResult.updatedAt)
PushReturns ==
    \E r \in 1..MaxRuns :
        /\ runs[r].pc = "pushed"
        /\ lastLoadedCloudUpdatedAt' = runs[r].saveResult
        /\ runs' = [runs EXCEPT ![r].pc = "done"]
        /\ UNCHANGED <<cloudUpdatedAt, now>>
        /\ UNCHANGED storageVars
        /\ UNCHANGED modelVars
        /\ UNCHANGED libVars

\* another browser with the same sync key pushes its data
OtherBrowserPushes ==
    /\ now < MaxWrites
    /\ now' = now + 1
    /\ cloudUpdatedAt' = now + 1
    /\ UNCHANGED <<lastLoadedCloudUpdatedAt, runs>>
    /\ UNCHANGED storageVars
    /\ UNCHANGED modelVars
    /\ UNCHANGED libVars

NextSync ==
    \/ ScheduleAutosave
    \/ CheckRemoteMeta
    \/ PushAppDataToCloud
    \/ PushReturns
    \/ OtherBrowserPushes

SpecSync == InitSync /\ [][NextSync]_vars

-----------------------------------------------------------------------------
(* The generators as a state machine *)

InitGen ==
    /\ tz \in TzOffsets
    /\ \E h \in Horizons : horizonStart = h.s /\ horizonEnd = h.e
    /\ pc = "idle"
    /\ config = NoConfig
    /\ expenses = <<>>
    /\ expenseIndex = 0
    /\ cursor = InvalidDate
    /\ i = 0
    /\ occurrenceIndex = 0
    /\ maxOccurrences = Num(0)
    /\ netPayAmount = NaN
    /\ events = <<>>
    /\ bonusEvents = <<>>
    /\ fcEvents = <<>>
    /\ startingBalance = 0
    /\ rows = <<>>
    /\ args = NoCall
    /\ returned = NoCall
    /\ InitStorage
    /\ now = 0
    /\ InitCloud

GenerateIncomeEvents ==
    pc = "idle" /\ \E cfg \in Configs : CallGenerateIncomeEvents(cfg)

GenerateExpenseEvents ==
    pc = "idle" /\ \E list \in ExpenseLists : CallGenerateExpenseEvents(list)

NextGen ==
    \/ GenerateIncomeEvents
    \/ IncomeLoopStep
    \/ CallGenerateBonusEvents
    \/ GenerateExpenseEvents
    \/ ExpenseEach
    \/ ExpenseLoopStep

SpecGen == InitGen /\ [][NextGen]_vars

-----------------------------------------------------------------------------
(* lib/forecast: compareEvents, buildForecast *)

\* the item and category strings of the model in the order localeCompare
\* gives them (letters compared without case first, lower case first on a tie)
Collation ==
    <<"Gym", "health", "income", "Monthly Bonus", "Paycheck", "rent", "Rent",
      "utilities", "Water">>

CollationRank(str) == CHOOSE n \in 1..Len(Collation) : Collation[n] = str

Sign(n) == IF n < 0 THEN 0 - 1 ELSE IF n > 0 THEN 1 ELSE 0

\* a.localeCompare(b) on item and category strings
localeCompare(a, b) == Sign(CollationRank(a) - CollationRank(b))

\* a.localeCompare(b) on ISO date strings
localeCompareDates(a, b) == Sign(a - b)

\* faulty variant: the type rule is inverted (expense before income)
compareEventsExpenseFirst(a, b) ==
    IF a.date # b.date THEN localeCompareDates(a.date, b.date)
    ELSE IF a.type # b.type THEN (IF a.type = "income" THEN 1 ELSE 0 - 1)
    ELSE IF a.type = "expense" /\ b.type = "expense" /\ a.category # b.category
         THEN localeCompare(a.category, b.category)
    ELSE localeCompare(a.item, b.item)

compareEvents(a, b) ==
    IF a.date # b.date THEN localeCompareDates(a.date, b.date)
    ELSE IF a.type # b.type THEN (IF a.type = "income" THEN 0 - 1 ELSE 1)
    ELSE IF a.type = "expense" /\ b.type = "expense" /\ a.category # b.category
         THEN localeCompare(a.category, b.category)
    ELSE localeCompare(a.item, b.item)

RECURSIVE SortEvents(_)
\* [...events].sort(compareEvents): Array.prototype.sort is stable, so events
\* that compare equal keep their input order
SortEvents(seq) ==
    IF seq = <<>> THEN <<>>
    ELSE LET rest == SortEvents(SubSeq(seq, 1, Len(seq) - 1))
             x == seq[Len(seq)]
             k == Cardinality({n \in 1..Len(rest) : compareEvents(rest[n], x) <= 0})
         IN  SubSeq(rest, 1, k) \o <<x>> \o SubSeq(rest, k + 1, Len(rest))

\* faulty variant: the fold adds every amount
BalanceDeltaAlwaysAdds(event) == event.amount

\* runningBalance += event.type === 'income' ? event.amount : -event.amount
BalanceDelta(event) ==
    IF event.type = "income" THEN event.amount ELSE 0 - event.amount

WithRunningBalance(event, runningBalance) ==
    [id |-> event.id, date |-> event.date, type |-> event.type,
     item |-> event.item, category |-> event.category, amount |-> event.amount,
     sourceId |-> event.sourceId, runningBalance |-> runningBalance]

RECURSIVE MapRunningBalance(_, _)
\* sorted.map(...) with the runningBalance closure seeded by balance
MapRunningBalance(sorted, balance) ==
    IF sorted = <<>> THEN <<>>
    ELSE LET next == balance + BalanceDelta(Head(sorted))
         IN  <<WithRunningBalance(Head(sorted), next)>>
             \o MapRunningBalance(Tail(sorted), next)

buildForecast(evts, balance) == MapRunningBalance(SortEvents(evts), balance)

\* the caller's array after the call: the sort works on the copy [...events]
EventsAfterBuildForecast(evts) == evts

-----------------------------------------------------------------------------
(* buildForecast as a state machine *)

MaxEvents == 3

StartingBalances == {0 - Money(100), Money(250)}

Tenant == AtPosition(Expense(20240131, "none", Undefined, FixedMode), 1)

Member == AtPosition(Expense(20240131, "none", Undefined, FixedMode), 2)

Utility == AtPosition(Expense(20240115, "none", Undefined, FixedMode), 3)

Landlord == AtPosition(Expense(20240131, "monthly", Undefined, FixedMode), 4)

\* events as the generators emit them: two paydays, a bonus on a payday, and
\* expenses of four sources, two of which share date, category and name
EventPool ==
    {IncomeEvent(20240131, 0, Money(1500)),
     IncomeEvent(20240214, 1, Money(1500)),
     BonusEvent(202401, 20240131, Money(50)),
     ExpenseEvent(Tenant, "expense", 20240131, 0),
     ExpenseEvent(Member, "expense", 20240131, 0),
     ExpenseEvent(Utility, "expense", 20240115, 0),
     ExpenseEvent(Landlord, "expense", 20240131, 0),
     ExpenseEvent(Landlord, "expense", 20240229, 1)}

\* lists of distinct events (event ids are unique)
EventLists ==
    UNION {{f \in [1..len -> EventPool] :
               \A a, b \in 1..len : a # b => f[a] # f[b]} : len \in 0..MaxEvents}

InitForecast ==
    /\ tz = 0
    /\ horizonStart = NewDate(2024, 0, 31)
    /\ horizonEnd = addMonths(NewDate(2024, 0, 31), HorizonMonths)
    /\ pc = "idle"
    /\ config = NoConfig
    /\ expenses = <<>>
    /\ expenseIndex = 0
    /\ cursor = InvalidDate
    /\ i = 0
    /\ occurrenceIndex = 0
    /\ maxOccurrences = Num(0)
    /\ netPayAmount = NaN
    /\ events = <<>>
    /\ bonusEvents = <<>>
    /\ fcEvents = <<>>
    /\ startingBalance = 0
    /\ rows = <<>>
    /\ args = NoCall
    /\ returned = NoCall
    /\ InitStorage
    /\ now = 0
    /\ InitCloud

\* ForecastPage: the merged event list and data.userSettings.startingBalance
MergeEvents ==
    /\ pc = "idle"
    /\ \E evts \in EventLists, bal \in StartingBalances :
          /\ fcEvents' = evts
          /\ startingBalance' = bal
    /\ pc' = "merged"
    /\ UNCHANGED appVars
    /\ UNCHANGED <<tz, horizonStart, horizonEnd, rows>>
    /\ UNCHANGED genVars
    /\ UNCHANGED libVars

CallBuildForecast ==
    /\ pc = "merged"
    /\ rows' = buildForecast(fcEvents, startingBalance)
    /\ fcEvents' = EventsAfterBuildForecast(fcEvents)
    /\ pc' = "forecastDone"
    /\ UNCHANGED appVars
    /\ UNCHANGED <<tz, horizonStart, horizonEnd, startingBalance>>
    /\ UNCHANGED genVars
    /\ UNCHANGED libVars

NextForecast == MergeEvents \/ CallBuildForecast

SpecForecast == InitForecast /\ [][NextForecast]_vars

-----------------------------------------------------------------------------
(* Properties of buildForecast (checked under SpecForecast) *)

\* a row without its runningBalance
EventOf(row) ==
    [id |-> row.id, date |-> row.date, type |-> row.type, item |-> row.item,
     category |-> row.category, amount |-> row.amount, sourceId |-> row.sourceId]

Occurrences(seq, x) == Cardinality({n \in 1..Len(seq) : seq[n] = x})

SameEvents(rs, evts) ==
    /\ Len(rs) = Len(evts)
    /\ \A e \in EventPool :
          Cardinality({n \in 1..Len(rs) : EventOf(rs[n]) = e}) = Occurrences(evts, e)

RECURSIVE AmountUpTo(_, _, _)
\* the sum of the amounts of the rows of the given type at positions 1..n
AmountUpTo(rs, type, n) ==
    IF n = 0 THEN 0
    ELSE AmountUpTo(rs, type, n - 1)
         + (IF rs[n].type = type THEN rs[n].amount ELSE 0)

BalancesFold(rs, balance) ==
    \A n \in 1..Len(rs) :
        rs[n].runningBalance =
            balance + AmountUpTo(rs, "income", n) - AmountUpTo(rs, "expense", n)

\* C2: buildForecast returns exactly the input events, the running balance of
\* row n is startingBalance plus the income amounts minus the expense amounts
\* of the rows 1..n, and the caller's event list is left as it was.
C2_ForecastFoldsAllEvents ==
    [][pc = "merged" =>
          /\ SameEvents(rows', fcEvents)
          /\ BalancesFold(rows', startingBalance)
          /\ fcEvents' = fcEvents]_vars

C2_Witness ==
    /\ pc = "forecastDone"
    /\ Len(rows) = MaxEvents
    /\ \E a, b \in 1..Len(rows) :
          a < b /\ rows[a].type = "expense" /\ rows[b].type = "income"
    /\ \E n \in 1..Len(rows) : rows[n] # WithRunningBalance(fcEvents[n],
                                                             rows[n].runningBalance)

RowView(row) ==
    [date |-> row.date, item |-> row.item, amount |-> row.amount,
     runningBalance |-> row.runningBalance]

Reorderings(seq) ==
    {[n \in 1..Len(seq) |-> seq[p[n]]] : p \in Permutations(1..Len(seq))}

\* C4: buildForecast of any reordering of the event list gives, position by
\* position, rows with the same date, item, amount and runningBalance.
C4_ForecastIgnoresInputOrder ==
    pc = "forecastDone" =>
        \A other \in Reorderings(fcEvents) :
            LET otherRows == buildForecast(other, startingBalance)
            IN  \A n \in 1..Len(rows) : RowView(otherRows[n]) = RowView(rows[n])

-----------------------------------------------------------------------------
(* Properties of the generators (checked under SpecGen) *)

\* days since 1970-01-01 of a calendar date, and back (proleptic Gregorian)
DayNumber(date) ==
    LET yy == IF date.m <= 2 THEN date.y - 1 ELSE date.y
        era == yy \div 400
        yoe == yy - era * 400
        mp == IF date.m > 2 THEN date.m - 3 ELSE date.m + 9
        doy == ((153 * mp + 2) \div 5) + date.d - 1
        doe == yoe * 365 + (yoe \div 4) - (yoe \div 100) + doy
    IN  era * 146097 + doe - 719468

DateOfDayNumber(days) ==
    LET z == days + 719468
        era == z \div 146097
        doe == z - era * 146097
        yoe == (doe - (doe \div 1460) + (doe \div 36524) - (doe \div 146096)) \div 365
        doy == doe - (365 * yoe + (yoe \div 4) - (yoe \div 100))
        mp == (5 * doy + 2) \div 153
        dd == doy - ((153 * mp + 2) \div 5) + 1
        mm == IF mp < 10 THEN mp + 3 ELSE mp - 9
    IN  [y |-> yoe + era * 400 + (IF mm <= 2 THEN 1 ELSE 0), m |-> mm, d |-> dd]

\* an ISO date string names a calendar day of the horizon
StringInHorizon(str) ==
    DateKey(horizonStart) <= str /\ str <= DateKey(horizonEnd)

DateInHorizon(date) ==
    isValidDate(date) /\ DateKey(horizonStart) <= DateKey(date)
                      /\ DateKey(date) <= DateKey(horizonEnd)

\* the expense at position k has been walked to its end
Processed(k) == k \in 1..Len(expenses) /\ k < expenseIndex

EventsOf(k) ==
    LET FromK(e) == e.sourceId = expenses[k].id
    IN  SelectSeq(events, FromK)

IdxOf(seq) == {seq[n].id.idx : n \in 1..Len(seq)}

StepDays(repeat) == IF repeat = "weekly" THEN 7 ELSE 14

RECURSIVE WalkDate(_, _, _)
\* the j-th date (from 0) of the walk that starts at date
WalkDate(date, repeat, j) ==
    IF repeat \in {"weekly", "biweekly"}
    THEN DateOfDayNumber(DayNumber(date) + StepDays(repeat) * j)
    ELSE IF j = 0 THEN date
    ELSE WalkDate(advanceExpenseDate(date, repeat), repeat, j - 1)

RECURSIVE WalkIdxInHorizon(_, _, _, _)
\* the indices j..limit-1 (all from j on when limit < 0) of the walk dates
\* that lie in the horizon; the walk is increasing
WalkIdxInHorizon(date, repeat, j, limit) ==
    IF (limit >= 0 /\ j >= limit) \/ DateGT(date, horizonEnd) THEN {}
    ELSE (IF DateInHorizon(date) THEN {j} ELSE {})
         \cup WalkIdxInHorizon(advanceExpenseDate(date, repeat), repeat, j + 1, limit)

\* the indices below limit (all when limit < 0) of the dates of the walk from
\* anchor that lie in the horizon
IdxInHorizon(anchor, repeat, limit) ==
    IF ~isValidDate(anchor) THEN {}
    ELSE IF repeat \in {"weekly", "biweekly"}
    THEN LET toStart == DayNumber(horizonStart) - DayNumber(anchor)
             toEnd == DayNumber(horizonEnd) - DayNumber(anchor)
             lo == MaxInt(0, 0 - ((0 - toStart) \div StepDays(repeat)))
             hi == toEnd \div StepDays(repeat)
         IN  IF limit >= 0 THEN lo..MinInt(hi, limit - 1) ELSE lo..hi
    ELSE WalkIdxInHorizon(anchor, repeat, 0, limit)

FixedSchedule(e) == ~e.variableDatesEnabled

\* repeatCount is a whole number n > 0
WholeCount(e) ==
    IsFinite(e.repeatCount) /\ e.repeatCount.v > 0 /\ e.repeatCount.v % 2 = 0

\* repeatCount is absent or <= 0
NoCount(e) ==
    e.repeatCount = Undefined \/ (IsFinite(e.repeatCount) /\ e.repeatCount.v <= 0)

\* the events of expense k are the walk dates with an index below limit that
\* lie in the horizon, one event each
EmitsWalkBelow(k, limit) ==
    LET e == expenses[k]
        evs == EventsOf(k)
        anchor == parseISODate(e.firstDueDate)
        expected == IdxInHorizon(anchor, e.repeat, limit)
    IN  /\ IdxOf(evs) = expected
        /\ Len(evs) = Cardinality(expected)
        /\ \A n \in 1..Len(evs) :
              evs[n].date = toISODate(WalkDate(anchor, e.repeat, evs[n].id.idx))


\* the inputs for which the claims say the net pay is undetermined
PayUndetermined(cfg) ==
    IF cfg.paycheckInputMode = "net" THEN ~IsFinite(cfg.netPayAmount)
    ELSE \/ ~IsFinite(cfg.loanRepaymentAmount)
         \/ IF cfg.grossInputMode = "hourly"
            THEN \/ ~IsFinite(cfg.hourlyRate) \/ cfg.hourlyRate.v <= 0
                 \/ ~IsFinite(cfg.hoursPerWeek) \/ cfg.hoursPerWeek.v <= 0
            ELSE ~IsFinite(cfg.grossPayAmount) \/ cfg.grossPayAmount.v <= 0

IncomeReturned == pc \in {"incomeDone", "bonusDone"}

IncomeWalks(cfg) ==
    /\ cfg.nextPayDate # EmptyStr
    /\ isValidDate(parseISODate(cfg.nextPayDate))
    /\ ~PayUndetermined(cfg)

\* the index at which a walk in steps of whole days from anchor falls on
\* target, or -1
HitIndex(anchor, step, target) ==
    LET gap == DayNumber(target) - DayNumber(anchor)
    IN  IF gap >= 0 /\ gap % step = 0 /\ gap \div step < MaxIterations
        THEN gap \div step ELSE 0 - 1

\* an occurrence of a weekly or biweekly walk that falls on the boundary day
\* has its event in evs
BoundaryEmitted(anchor, repeat, evs, boundary) ==
    (isValidDate(anchor) /\ repeat \in {"weekly", "biweekly"}
         /\ HitIndex(anchor, StepDays(repeat), boundary) >= 0)
        => HitIndex(anchor, StepDays(repeat), boundary) \in IdxOf(evs)

\* C1: every event of generateIncomeEvents, generateBonusEvents and
\* generateExpenseEvents is dated within [horizonStart, horizonEnd], and an
\* occurrence falling on horizonStart or on horizonEnd is emitted.
C1_EventsWithinHorizon ==
    /\ \A n \in 1..Len(events) : StringInHorizon(events[n].date)
    /\ \A n \in 1..Len(bonusEvents) : StringInHorizon(bonusEvents[n].date)
    /\ (IncomeReturned /\ IncomeWalks(config)) =>
          \A b \in {horizonStart, horizonEnd} :
              BoundaryEmitted(parseISODate(config.nextPayDate),
                              config.payFrequency, events, b)
    /\ \A k \in 1..Len(expenses) :
          (Processed(k) /\ FixedSchedule(expenses[k]) /\ NoCount(expenses[k])) =>
              \A b \in {horizonStart, horizonEnd} :
                  BoundaryEmitted(parseISODate(expenses[k].firstDueDate),
                                  expenses[k].repeat, EventsOf(k), b)

Loops == {"incomeLoop", "expenseLoop"}

\* C5: a recurrence loop runs at most 5000 iterations per rule (i counts
\* them), and a loop that has reached the cap returns the events found so far.
C5_WalksStopAtTheCap ==
    [][/\ i' <= MaxIterations
       /\ (pc \in Loops /\ pc' = pc) => i' = i + 1
       /\ (pc \in Loops /\ i = MaxIterations) => (pc' \notin Loops /\ events' = events)]_vars

C5_Witness ==
    /\ pc = "expenseDone"
    /\ i = MaxIterations
    /\ DateInHorizon(cursor)
    /\ Len(events) > 1

\* C6 as stated: with repeatCount = n > 0 the events of a fixed-schedule
\* repeating expense are the first n walk dates that lie in the horizon, and
\* with repeatCount absent or <= 0 every walk date that lies in the horizon.
C6_CountLimitsTheWalk ==
    \A k \in 1..Len(expenses) :
        (Processed(k) /\ FixedSchedule(expenses[k]) /\ expenses[k].repeat # "none") =>
            /\ WholeCount(expenses[k]) =>
                  EmitsWalkBelow(k, expenses[k].repeatCount.v \div 2)
            /\ NoCount(expenses[k]) => EmitsWalkBelow(k, 0 - 1)

\* C6 amended: the same of the first min(n, 5000) walk dates, and with
\* repeatCount absent or <= 0 of the first 5000 walk dates.
C6_CountAndCapLimitTheWalk ==
    \A k \in 1..Len(expenses) :
        (Processed(k) /\ FixedSchedule(expenses[k]) /\ expenses[k].repeat # "none") =>
            /\ WholeCount(expenses[k]) =>
                  EmitsWalkBelow(k, MinInt(expenses[k].repeatCount.v \div 2,
                                           MaxIterations))
            /\ NoCount(expenses[k]) => EmitsWalkBelow(k, MaxIterations)

C6_Witness ==
    /\ pc = "expenseDone"
    /\ Len(expenses) = 1
    /\ FixedSchedule(expenses[1])
    /\ expenses[1].repeat = "weekly"
    /\ expenses[1].repeatCount = Num(4)
    /\ DateLT(parseISODate(expenses[1].firstDueDate), horizonStart)
    /\ Len(events) = 1
    /\ events[1].id.idx = 1

RECURSIVE KeepInHorizon(_)
\* the entries of a list of date strings that parse to a day of the horizon
KeepInHorizon(dates) ==
    IF dates = <<>> THEN <<>>
    ELSE (IF DateInHorizon(parseISODate(Head(dates))) THEN <<Head(dates)>> ELSE <<>>)
         \o KeepInHorizon(Tail(dates))

DatesOf(seq) == [n \in 1..Len(seq) |-> seq[n].date]

\* C7: an expense with variableDatesEnabled gets one event per entry of
\* variableDueDates in the horizon, ascending, whatever firstDueDate, repeat
\* and repeatCount are (none for an empty list); an expense without it gets
\* the events of its fixed schedule, whatever variableDueDates is.
C7_ModesAreExclusive ==
    \A k \in 1..Len(expenses) :
        Processed(k) =>
            IF expenses[k].variableDatesEnabled
            THEN DatesOf(EventsOf(k))
                     = KeepInHorizon(SortStrings(expenses[k].variableDueDates))
            ELSE /\ \A n \in 1..Len(EventsOf(k)) : EventsOf(k)[n].id.kind = "expense"
                 /\ IdxOf(EventsOf(k))
                       = IdxInHorizon(parseISODate(expenses[k].firstDueDate),
                                      expenses[k].repeat,
                                      IF MaxOccurrences(expenses[k]) = POSITIVE_INFINITY
                                      THEN MaxIterations
                                      ELSE MinInt(MaxOccurrences(expenses[k]).v,
                                                  MaxIterations))

\* C8: a fixed-schedule expense with repeat = none gets exactly one event,
\* dated firstDueDate, when firstDueDate lies in the horizon, and none
\* otherwise, whatever repeatCount is.
C8_OneOffEmitsItsDueDate ==
    \A k \in 1..Len(expenses) :
        (Processed(k) /\ FixedSchedule(expenses[k]) /\ expenses[k].repeat = "none") =>
            DatesOf(EventsOf(k))
                = (IF DateInHorizon(parseISODate(expenses[k].firstDueDate))
                   THEN <<expenses[k].firstDueDate>> ELSE <<>>)

NextMonthDay(date, day) ==
    IF date.m = 12 THEN [y |-> date.y + 1, m |-> 1, d |-> day]
    ELSE [y |-> date.y, m |-> date.m + 1, d |-> day]

\* C9: the semimonthly walk steps from the 1st to the 15th of the month, from
\* the 2nd..15th to the 1st of the next month and from the 16th on to the
\* 15th of the next month; every later occurrence is a 1st or a 15th and the
\* walk is strictly increasing.
C9_SemimonthlySplit ==
    [][(pc = "incomeLoop" /\ pc' = "incomeLoop" /\ config.payFrequency = "semimonthly") =>
          /\ cursor.d = 1 => cursor' = [y |-> cursor.y, m |-> cursor.m, d |-> 15]
          /\ (cursor.d >= 2 /\ cursor.d <= 15) => cursor' = NextMonthDay(cursor, 1)
          /\ cursor.d >= 16 => cursor' = NextMonthDay(cursor, 15)
          /\ cursor'.d \in {1, 15}
          /\ DateKey(cursor') > DateKey(cursor)]_vars

C9_Witness ==
    /\ pc = "incomeLoop"
    /\ config.payFrequency = "semimonthly"
    /\ parseISODate(config.nextPayDate).d >= 16
    /\ i >= 3
    /\ cursor.d = 15
    /\ Len(events) >= 2

\* C10: generateIncomeEvents returns no event when nextPayDate is empty or
\* does not parse, or when the net pay is undetermined; otherwise every event
\* carries computeNetPay(config).
C10_IncomeNeedsPayAndDate ==
    pc \in {"incomeLoop", "incomeDone", "bonusDone"} =>
        IF IncomeWalks(config)
        THEN \A n \in 1..Len(events) : Num(events[n].amount) = computeNetPay(config)
        ELSE events = <<>> /\ pc # "incomeLoop"

C10_Witness ==
    /\ pc = "incomeDone"
    /\ config.paycheckInputMode = "calculate"
    /\ config.grossInputMode = "hourly"
    /\ Len(events) >= 2
    /\ events[1].amount > 0

-----------------------------------------------------------------------------
(* lib/forecast: computeNextPaydayMetrics *)

\* forecastRows.filter((row) => row.date <= nextPaydayDate)
RowsUntilPayday(forecastRows, nextPaydayDate) ==
    LET Until(row) == row.date <= nextPaydayDate
    IN  SelectSeq(forecastRows, Until)

\* faulty variant: the rows of the payday itself count as before it
RowsBeforePaydayInclusive(forecastRows, nextPaydayDate) ==
    LET Before(row) == row.date <= nextPaydayDate
    IN  SelectSeq(forecastRows, Before)

\* forecastRows.filter((row) => row.date < nextPaydayDate)
RowsBeforePaydayIncome(forecastRows, nextPaydayDate) ==
    LET Before(row) == row.date < nextPaydayDate
    IN  SelectSeq(forecastRows, Before)

RECURSIVE ReduceMin(_, _)
\* rows.reduce((min, row) => Math.min(min, row.runningBalance), seed)
ReduceMin(rowList, seed) ==
    IF rowList = <<>> THEN seed
    ELSE ReduceMin(Tail(rowList), MinInt(seed, Head(rowList).runningBalance))

computeNextPaydayMetrics(forecastRows, nextPaydayDate, minimumBuffer, balance) ==
    LET rowsUntilPayday == RowsUntilPayday(forecastRows, nextPaydayDate)
        balanceOnNextPayday ==
            IF Len(rowsUntilPayday) # 0
            THEN rowsUntilPayday[Len(rowsUntilPayday)].runningBalance
            ELSE balance
        lowestBalanceBeforeNextPayday ==
            ReduceMin(RowsBeforePaydayIncome(forecastRows, nextPaydayDate), balance)
    IN  [nextPaydayDate |-> nextPaydayDate,
         balanceOnNextPayday |-> balanceOnNextPayday,
         lowestBalanceBeforeNextPayday |-> lowestBalanceBeforeNextPayday,
         safeToSpendUntilNextPayday |-> lowestBalanceBeforeNextPayday - minimumBuffer]

-----------------------------------------------------------------------------
(* lib/expenseStatus *)

RECURSIVE UpcomingWithin(_, _, _, _, _)
\* for (let i = 0; i < occurrences; i += 1) { if (cursor >= from) return true;
\* cursor = advanceExpenseDate(cursor, expense.repeat); } return false
UpcomingWithin(date, repeat, from, n, occurrences) ==
    IF ~(n < occurrences) THEN FALSE
    ELSE IF DateGE(date, from) THEN TRUE
    ELSE UpcomingWithin(advanceExpenseDate(date, repeat), repeat, from, n + 1,
                        occurrences)

hasUpcomingOccurrence(expense, fromDate) ==
    LET from == startOfDay(fromDate)
        first == parseISODate(expense.firstDueDate)
    IN  IF expense.variableDatesEnabled
        THEN \E n \in 1..Len(expense.variableDueDates) :
                 LET parsed == parseISODate(expense.variableDueDates[n])
                 IN  isValidDate(parsed) /\ DateGE(parsed, from)
        ELSE IF ~isValidDate(first) THEN FALSE
        ELSE IF expense.repeat = "none" THEN DateGE(first, from)
        ELSE IF \/ ~IsFinite(expense.repeatCount)
                \/ Coalesce(expense.repeatCount, Num(0)).v <= 0
             THEN TRUE
        ELSE UpcomingWithin(first, expense.repeat, from, 0,
                            MaxInt(1, MathFloorHalves(Coalesce(expense.repeatCount,
                                                               Num(2)))))

RECURSIVE partitionExpensesByStatus(_, _)
\* expenses.reduce(...) pushing each expense to acc.active or acc.finished
partitionExpensesByStatus(list, fromDate) ==
    IF list = <<>> THEN [active |-> <<>>, finished |-> <<>>]
    ELSE LET acc == partitionExpensesByStatus(SubSeq(list, 1, Len(list) - 1), fromDate)
             expense == list[Len(list)]
         IN  IF hasUpcomingOccurrence(expense, fromDate)
             THEN [acc EXCEPT !.active = Append(@, expense)]
             ELSE [acc EXCEPT !.finished = Append(@, expense)]

-----------------------------------------------------------------------------
(* hasUpcomingOccurrence as a state machine, one loop iteration per step *)

\* an anchor so early that 6000 weekly occurrences all precede 2024
CenturyAnchor == 19000103

StatusExpenses ==
    {Expense(d, r, c, FixedMode) :
        d \in {20231231, 20240131}, r \in {"none", "weekly", "monthly"},
        c \in {Undefined, Num(1), Num(2 * MaxRepeatCount)}}
    \cup {Expense(20240131, "none", Undefined,
                  [enabled |-> TRUE, dates |-> <<20240315, 20240131>>]),
          Expense(BadStr, "weekly", Num(4), FixedMode),
          Expense(CenturyAnchor, "weekly", OverCapCount, FixedMode)}

\* the call up to the loop: the early returns, or the loop's first test
CallHasUpcomingOccurrence(expense, fromDate) ==
    LET from == startOfDay(fromDate)
        first == parseISODate(expense.firstDueDate)
        early == \/ expense.variableDatesEnabled
                 \/ ~isValidDate(first)
                 \/ expense.repeat = "none"
                 \/ ~IsFinite(expense.repeatCount)
                 \/ Coalesce(expense.repeatCount, Num(0)).v <= 0
    IN  /\ pc = "idle"
        /\ args' = [op |-> "hasUpcomingOccurrence", expense |-> expense,
                    fromDate |-> fromDate]
        /\ expenses' = <<expense>>
        /\ IF early
           THEN /\ returned' = hasUpcomingOccurrence(expense, fromDate)
                /\ pc' = "statusDone"
                /\ UNCHANGED <<cursor, i, maxOccurrences>>
           ELSE /\ cursor' = first
                /\ maxOccurrences' =
                       Num(MaxInt(1, MathFloorHalves(Coalesce(expense.repeatCount,
                                                              Num(2)))))
                /\ i' = 0
                /\ pc' = "statusLoop"
                /\ UNCHANGED returned
        /\ UNCHANGED appVars
        /\ UNCHANGED <<tz, horizonStart, horizonEnd, config, expenseIndex,
                       occurrenceIndex, netPayAmount, events, bonusEvents>>
        /\ UNCHANGED fcVars

HasUpcomingOccurrence ==
    pc = "idle" /\ \E expense \in StatusExpenses :
        CallHasUpcomingOccurrence(expense, horizonStart)

\* for (let i = 0; i < occurrences; i += 1) { if (cursor >= from) return true;
\* cursor = advanceExpenseDate(cursor, expense.repeat); } return false
StatusLoopStep ==
    /\ pc = "statusLoop"
    /\ IF ~(i < maxOccurrences.v)
       THEN /\ returned' = FALSE
            /\ pc' = "statusDone"
            /\ UNCHANGED <<cursor, i>>
       ELSE IF DateGE(cursor, startOfDay(args.fromDate))
       THEN /\ returned' = TRUE
            /\ pc' = "statusDone"
            /\ UNCHANGED <<cursor, i>>
       ELSE /\ cursor' = advanceExpenseDate(cursor, expenses[1].repeat)
            /\ i' = i + 1
            /\ pc' = pc
            /\ UNCHANGED returned
    /\ UNCHANGED appVars
    /\ UNCHANGED <<tz, horizonStart, horizonEnd, config, expenses, expenseIndex,
                   occurrenceIndex, maxOccurrences, netPayAmount, events,
                   bonusEvents, args>>
    /\ UNCHANGED fcVars

NextStatus ==
    \/ HasUpcomingOccurrence
    \/ StatusLoopStep

SpecStatus == InitGen /\ [][NextStatus]_vars

-----------------------------------------------------------------------------
(* lib/forecastView: buildMonthlyCategorySlices *)

\* date.slice(0, 7)
toMonthKey(date) == date \div 100

MonthsCharted == 12

\* Array.from({ length: 12 }, (_, index) => toISODate(addMonths(horizonStart,
\* index)).slice(0, 7)); the label is left out
ChartMonthKeys(start) ==
    [n \in 1..MonthsCharted |-> toMonthKey(toISODate(addMonths(start, n - 1)))]

\* categoryMap.set(category, (categoryMap.get(category) ?? 0) + amount) on a
\* Map kept as its entries in insertion order
AddToCategory(entries, category, amount) ==
    IF \E n \in 1..Len(entries) : entries[n].category = category
    THEN [n \in 1..Len(entries) |->
             IF entries[n].category = category
             THEN [category |-> category, amount |-> entries[n].amount + amount]
             ELSE entries[n]]
    ELSE Append(entries, [category |-> category, amount |-> amount])

RECURSIVE SpendByCategory(_, _)
\* spendByMonthCategory.get(monthKey) ?? new Map() after the forEach
SpendByCategory(expenseEvents, monthKey) ==
    IF expenseEvents = <<>> THEN <<>>
    ELSE LET categoryMap == SpendByCategory(SubSeq(expenseEvents, 1, Len(expenseEvents) - 1),
                                            monthKey)
             event == expenseEvents[Len(expenseEvents)]
         IN  IF toMonthKey(event.date) = monthKey
             THEN AddToCategory(categoryMap, event.category, event.amount)
             ELSE categoryMap

RECURSIVE SortSlices(_)
\* .sort((a, b) => b.amount - a.amount): descending, equal amounts keep
\* their order
SortSlices(slices) ==
    IF slices = <<>> THEN <<>>
    ELSE LET rest == SortSlices(SubSeq(slices, 1, Len(slices) - 1))
             x == slices[Len(slices)]
             k == Cardinality({n \in 1..Len(rest) : x.amount - rest[n].amount <= 0})
         IN  SubSeq(rest, 1, k) \o <<x>> \o SubSeq(rest, k + 1, Len(rest))

buildMonthlyCategorySlices(expenseEvents, start) ==
    LET monthKeys == ChartMonthKeys(start)
    IN  [n \in 1..MonthsCharted |->
            [key |-> monthKeys[n],
             slices |-> SortSlices(SpendByCategory(expenseEvents, monthKeys[n]))]]

-----------------------------------------------------------------------------
(* lib/forecastView: createMonthlyBalanceByKey *)

\* faulty variant: every row of the month counts as spending
SpentOfAnyRow(row) == row.amount

\* row.type === 'expense' ? row.amount : 0
SpentOf(row) == IF row.type = "expense" THEN row.amount ELSE 0

RECURSIVE createMonthlyBalanceByKey(_, _)
\* the Map as its entries in insertion order; previousRunningBalance is the
\* runningBalance of the row before, or startingBalance at the first row
createMonthlyBalanceByKey(forecastRows, balance) ==
    IF forecastRows = <<>> THEN <<>>
    ELSE LET earlier == SubSeq(forecastRows, 1, Len(forecastRows) - 1)
             map == createMonthlyBalanceByKey(earlier, balance)
             row == forecastRows[Len(forecastRows)]
             previousRunningBalance ==
                 IF earlier = <<>> THEN balance
                 ELSE earlier[Len(earlier)].runningBalance
             monthKey == toMonthKey(row.date)
         IN  IF ~\E n \in 1..Len(map) : map[n].key = monthKey
             THEN Append(map, [key |-> monthKey,
                               openingBalance |-> previousRunningBalance,
                               endingBalance |-> row.runningBalance,
                               spent |-> SpentOf(row)])
             ELSE [n \in 1..Len(map) |->
                      IF map[n].key = monthKey
                      THEN [map[n] EXCEPT !.endingBalance = row.runningBalance,
                                          !.spent = @ + SpentOf(row)]
                      ELSE map[n]]

-----------------------------------------------------------------------------
(* lib/forecastView: createFiniteExpenseIdSet and the maps of the last rows *)

\* Expense.highlightLastEvent?: boolean, kept as "true", "false" or "undefined"
HighlightFlags == {"true", "false", "undefined"}

WithHighlight(expense, flag) ==
    [id |-> expense.id, name |-> expense.name, amount |-> expense.amount,
     category |-> expense.category, firstDueDate |-> expense.firstDueDate,
     repeat |-> expense.repeat, repeatCount |-> expense.repeatCount,
     variableDatesEnabled |-> expense.variableDatesEnabled,
     variableDueDates |-> expense.variableDueDates,
     highlightLastEvent |-> flag]

\* faulty variant: only the expenses that opted in, whatever the others say
HighlightEnabledIdsExplicitOnly(list) ==
    {list[n].id : n \in {x \in 1..Len(list) : list[x].highlightLastEvent = "true"}}

\* the ids of expenses.filter(e => hasAnyExplicitHighlightEnabled
\*                                 ? e.highlightLastEvent === true : true)
HighlightEnabledIds(list) ==
    LET hasAnyExplicitHighlightEnabled ==
            \E n \in 1..Len(list) : list[n].highlightLastEvent = "true"
    IN  {list[n].id :
            n \in {x \in 1..Len(list) :
                      IF hasAnyExplicitHighlightEnabled
                      THEN list[x].highlightLastEvent = "true"
                      ELSE TRUE}}

\* row.type !== 'expense' || !row.sourceId: the rows the forEach skips
IsSourcedExpenseRow(row) == row.type = "expense" /\ row.sourceId # NoSource

\* occurrenceCountBySourceId.get(sourceId) after the forEach
OccurrenceCount(forecastRows, sourceId) ==
    Cardinality({n \in 1..Len(forecastRows) :
                    /\ IsSourcedExpenseRow(forecastRows[n])
                    /\ forecastRows[n].sourceId = sourceId})

createFiniteExpenseIdSet(list, forecastRows) ==
    LET highlightEnabledIds == HighlightEnabledIds(list)
        sourceIds == {forecastRows[n].sourceId :
                         n \in {x \in 1..Len(forecastRows) :
                                   IsSourcedExpenseRow(forecastRows[x])}}
    IN  {sourceId \in sourceIds :
            /\ sourceId \in highlightEnabledIds
            /\ OccurrenceCount(forecastRows, sourceId) > 1}

\* the Map as a function of the source ids it has: the greatest date of the
\* source's expense rows (!previous || row.date > previous)
createLastExpenseDateBySourceMap(forecastRows) ==
    LET at == {n \in 1..Len(forecastRows) : IsSourcedExpenseRow(forecastRows[n])}
    IN  [sourceId \in {forecastRows[n].sourceId : n \in at} |->
            LET dates == {forecastRows[n].date :
                             n \in {x \in at : forecastRows[x].sourceId = sourceId}}
            IN  CHOOSE d \in dates : \A other \in dates : other <= d]

\* the Map as a function of the month keys it has: the id of the last expense
\* row of the month in list order
createLastExpenseRowIdByMonthMap(forecastRows) ==
    LET at == {n \in 1..Len(forecastRows) : forecastRows[n].type = "expense"}
    IN  [monthKey \in {toMonthKey(forecastRows[n].date) : n \in at} |->
            LET ofMonth == {n \in at : toMonthKey(forecastRows[n].date) = monthKey}
            IN  forecastRows[CHOOSE n \in ofMonth : \A x \in ofMonth : x <= n].id]

-----------------------------------------------------------------------------
(* lib/forecastView: buildBandedRows *)

\* monthlyBalanceByKey.get(monthKey)?.spent ?? 0
MonthSpent(monthlyBalanceByKey, monthKey) ==
    IF \E n \in 1..Len(monthlyBalanceByKey) : monthlyBalanceByKey[n].key = monthKey
    THEN LET n == CHOOSE x \in 1..Len(monthlyBalanceByKey) :
                      monthlyBalanceByKey[x].key = monthKey
         IN  monthlyBalanceByKey[n].spent
    ELSE 0

\* spentTrendClass; previousMonthSpent is null before the first row
SpentTrendClass(isMonthStart, monthSpent, previousMonthSpent) ==
    IF isMonthStart /\ previousMonthSpent # Null
    THEN IF monthSpent < previousMonthSpent.v THEN "month-spent-better"
         ELSE IF monthSpent > previousMonthSpent.v THEN "month-spent-worse"
         ELSE "month-spent-equal"
    ELSE ""

RECURSIVE BandedFrom(_, _, _, _, _)
\* rows.map from row n on, with the callback's three variables; monthLabel,
\* monthSummary and the emoji (one per class) are left out
BandedFrom(p, n, previousMonth, previousMonthSpent, monthBand) ==
    IF n > Len(p.rows) THEN <<>>
    ELSE LET row == p.rows[n]
             monthKey == toMonthKey(row.date)
             isMonthStart == monthKey # previousMonth
             monthSpent == MonthSpent(p.monthlyBalanceByKey, monthKey)
             band == IF isMonthStart /\ previousMonth # EmptyStr
                     THEN (IF monthBand = "a" THEN "b" ELSE "a")
                     ELSE monthBand
             sourceId == row.sourceId
         IN  <<[row |-> row,
                monthKey |-> monthKey,
                monthSpent |-> monthSpent,
                spentTrendClass |-> SpentTrendClass(isMonthStart, monthSpent,
                                                    previousMonthSpent),
                isMonthStart |-> isMonthStart,
                isLastPayment |->
                    /\ row.type = "expense"
                    /\ sourceId # NoSource
                    /\ sourceId \in p.finiteExpenseIds
                    /\ sourceId \in DOMAIN p.lastExpenseDateBySource
                    /\ p.lastExpenseDateBySource[sourceId] = row.date,
                isLastExpenseOfMonth |->
                    /\ row.type = "expense"
                    /\ monthKey \in DOMAIN p.lastExpenseRowIdByMonth
                    /\ p.lastExpenseRowIdByMonth[monthKey] = row.id,
                monthBandClass |-> IF band = "a" THEN "month-band-a"
                                   ELSE "month-band-b"]>>
             \o BandedFrom(p, n + 1, monthKey,
                           IF isMonthStart THEN Num(monthSpent) ELSE previousMonthSpent,
                           band)

buildBandedRows(p) == BandedFrom(p, 1, EmptyStr, Null, "a")

-----------------------------------------------------------------------------
(* ForecastPage: the table of the forecast *)

FilterModes == {"all", "income", "expenses"}

RECURSIVE filterForecastRows(_, _)
filterForecastRows(forecastRows, mode) ==
    IF mode = "all" \/ forecastRows = <<>> THEN forecastRows
    ELSE LET kept == filterForecastRows(Tail(forecastRows), mode)
             wanted == IF mode = "income" THEN "income" ELSE "expense"
         IN  IF Head(forecastRows).type = wanted
             THEN <<Head(forecastRows)>> \o kept
             ELSE kept

\* the income events of the page: none, or a paycheck on the first day of
\* the horizon
PageIncomeEvents ==
    {<<>>, <<IncomeEvent(toISODate(horizonStart), 0, Money(1500))>>}

\* a render of ForecastPage over the expense events just generated: data.expenses
\* carry their highlightLastEvent, forecastRows is the forecast of the income
\* and expense events, and the table is built from the filtered rows and the
\* maps of the unfiltered ones
RenderForecastPage ==
    /\ pc = "expenseDone"
    /\ \E flags \in [1..Len(expenses) -> HighlightFlags],
          filterMode \in FilterModes, incomeEvents \in PageIncomeEvents :
          LET dataExpenses == [n \in 1..Len(expenses) |->
                                  WithHighlight(expenses[n], flags[n])]
              forecastRows == buildForecast(incomeEvents \o events, startingBalance)
              finiteExpenseIds == createFiniteExpenseIdSet(dataExpenses, forecastRows)
              bandedRows ==
                  buildBandedRows(
                      [rows |-> filterForecastRows(forecastRows, filterMode),
                       monthlyBalanceByKey |->
                           createMonthlyBalanceByKey(forecastRows, startingBalance),
                       finiteExpenseIds |-> finiteExpenseIds,
                       lastExpenseDateBySource |->
                           createLastExpenseDateBySourceMap(forecastRows),
                       lastExpenseRowIdByMonth |->
                           createLastExpenseRowIdByMonthMap(forecastRows)])
          IN  /\ rows' = forecastRows
              /\ args' = [op |-> "ForecastPage", expenses |-> dataExpenses,
                          filterMode |-> filterMode]
              /\ returned' = [finiteExpenseIds |-> finiteExpenseIds,
                              bandedRows |-> bandedRows]
    /\ pc' = "rendered"
    /\ UNCHANGED appVars
    /\ UNCHANGED <<tz, horizonStart, horizonEnd, fcEvents, startingBalance>>
    /\ UNCHANGED genVars

\* the expenses of the page: one-off, weekly and monthly, unbounded or with
\* a repeatCount, with or without variable dates, alone or in lists
PageExpensePool ==
    {Expense(d, r, c, m) :
        d \in {20231231, 20240131}, r \in {"none", "weekly", "monthly"},
        c \in {Undefined, Num(2 * MaxRepeatCount)},
        m \in {FixedMode, [enabled |-> TRUE, dates |-> <<20240315, 20240131>>]}}

PageExpenseLists ==
    {<<e>> : e \in PageExpensePool}
    \cup UNION {{[n \in 1..len |-> AtPosition(f[n], n)] : f \in [1..len -> ListPool]} :
                   len \in 2..MaxExpenses}

GeneratePageExpenseEvents ==
    pc = "idle" /\ \E list \in PageExpenseLists : CallGenerateExpenseEvents(list)

NextPage ==
    \/ GeneratePageExpenseEvents
    \/ ExpenseEach
    \/ ExpenseLoopStep
    \/ RenderForecastPage

SpecPage == InitGen /\ [][NextPage]_vars

-----------------------------------------------------------------------------
(* Library functions called on their own *)

MaxIncomeEvents == 3

LibBonusAmounts ==
    {Undefined, NaN, Num(0), Num(0 - Money(5)), Num(Money(50)), Num(Money(75) + 50)}

\* paycheck dates of three months, given in any order and with repeats
PaycheckDates == {20231229, 20240105, 20240119, 20240131, 20240216, 20240301}

IncomeEventLists ==
    UNION {[1..len -> {IncomeEvent(d, 0, Money(1500)) : d \in PaycheckDates}] :
              len \in 0..MaxIncomeEvents}

InitLib ==
    /\ tz \in TzOffsets
    /\ horizonStart = NewDate(2024, 0, 31)
    /\ horizonEnd = addMonths(NewDate(2024, 0, 31), HorizonMonths)
    /\ pc = "idle"
    /\ config = NoConfig
    /\ expenses = <<>>
    /\ expenseIndex = 0
    /\ cursor = InvalidDate
    /\ i = 0
    /\ occurrenceIndex = 0
    /\ maxOccurrences = Num(0)
    /\ netPayAmount = NaN
    /\ events = <<>>
    /\ bonusEvents = <<>>
    /\ fcEvents = <<>>
    /\ startingBalance = 0
    /\ rows = <<>>
    /\ args = NoCall
    /\ returned = NoCall
    /\ InitStorage
    /\ now = 0
    /\ InitCloud

\* a call of a library function: its arguments and the value it returns
Returns(call, value) ==
    /\ pc = "idle"
    /\ args' = call
    /\ returned' = value
    /\ pc' = "returned"
    /\ UNCHANGED appVars
    /\ UNCHANGED <<tz, horizonStart, horizonEnd>>
    /\ UNCHANGED genVars
    /\ UNCHANGED fcVars

BonusCall ==
    pc = "idle" /\ \E b \in LibBonusAmounts, list \in IncomeEventLists :
        LET cfg == WithSchedule(NetPart, "weekly", 20240105, b)
        IN  Returns([op |-> "generateBonusEvents", config |-> cfg,
                     incomeEvents |-> list],
                    generateBonusEvents(cfg, list))

\* ForecastPage passes the date of the first income event; the dates here lie
\* before, between, on and after the rows
NextPaydayDates == {EmptyStr, 20240115, 20240131, 20240214, 20240301}

MinimumBuffers == {0, Money(500)}

MetricsCall ==
    pc = "idle" /\ \E evts \in EventLists, bal \in StartingBalances, date \in NextPaydayDates,
       buffer \in MinimumBuffers :
        Returns([op |-> "computeNextPaydayMetrics",
                 forecastRows |-> buildForecast(evts, bal),
                 nextPaydayDate |-> date, minimumBuffer |-> buffer,
                 startingBalance |-> bal],
                computeNextPaydayMetrics(buildForecast(evts, bal), date, buffer, bal))

\* ForecastPage passes horizonStart, SetupPage new Date()
ReferenceDates == {NewDate(2024, 0, 31), NewDate(2024, 2, 1), NewDate(2024, 3, 2)}

\* the lists of the expense generator, without the one whose count makes
\* hasUpcomingOccurrence walk some 5000 steps
PartitionLists ==
    ExpenseLists \ {<<Expense(FarAnchor, "weekly", OverCapCount, FixedMode)>>}

PartitionCall ==
    pc = "idle" /\ \E list \in PartitionLists, fromDate \in ReferenceDates :
        Returns([op |-> "partitionExpensesByStatus", expenses |-> list,
                 fromDate |-> fromDate],
                partitionExpensesByStatus(list, fromDate))

NetAmounts == {Null, NaN, POSITIVE_INFINITY, Num(Money(1500) + 75), Num(0 - Money(50))}

GrossAmounts == {Null, POSITIVE_INFINITY, Num(0), Num(0 - Money(100)), Num(Money(2000)),
                 Num(Money(100))}

\* hourlyRate with hoursPerWeek; the last pair gives a weekly gross that
\* rounds to 0
HourlyPairs ==
    {[rate |-> Null, hours |-> Null], [rate |-> Num(Money(20)), hours |-> Num(40)],
     [rate |-> Num(40), hours |-> Num(1)]}

LoanAmounts == {Num(0), Num(Money(25)), Num(0 - Money(10)), NaN}

PretaxChoices == {<<>>, SomeLines}

PosttaxChoices == {<<>>, <<Line("percentOfGross", Num(10)), Line("fixed", Num(Money(40)))>>}

BreakdownConfigs ==
    {WithSchedule(PayPart(mode, gmode, net, gross, h.rate, h.hours, pre, tax, post, loan),
                  freq, 20240105, Undefined) :
        mode \in {"net", "calculate"}, gmode \in {"direct", "hourly"},
        net \in NetAmounts, gross \in GrossAmounts, h \in HourlyPairs,
        pre \in PretaxChoices, tax \in PretaxChoices, post \in PosttaxChoices,
        loan \in LoanAmounts, freq \in {"weekly", "semimonthly"}}

BreakdownCall ==
    pc = "idle" /\ \E cfg \in BreakdownConfigs :
        Returns([op |-> "computeNetPayBreakdown", config |-> cfg],
                computeNetPayBreakdown(cfg))

HourlyRates ==
    {Null, Undefined, NaN, POSITIVE_INFINITY, Num(0), Num(0 - Money(20)),
     Num(Money(20)), Num(Money(17) + 3500), Num(40)}

HoursPerWeek == {Null, NaN, POSITIVE_INFINITY, Num(0), Num(0 - 5), Num(1), Num(37), Num(40)}

GrossFromHourlyCall ==
    pc = "idle" /\ \E freq \in PayFrequencies, rate \in HourlyRates, hours \in HoursPerWeek :
        Returns([op |-> "computeGrossPayFromHourly", payFrequency |-> freq,
                 hourlyRate |-> rate, hoursPerWeek |-> hours],
                computeGrossPayFromHourly(freq, rate, hours))

MaxDelta == 14

\* month ends of long and short months in leap and common years, a leap day,
\* a mid-month day and a year end
LibDates ==
    {NewDate(2024, 0, 31), NewDate(2023, 0, 31), NewDate(2024, 1, 29),
     NewDate(2023, 11, 15), NewDate(2024, 2, 30), NewDate(2023, 11, 31),
     NewDate(1900, 0, 31)}

\* small steps both ways, the steps the generators take, and steps back into
\* the first century
MonthSteps == ((0 - MaxDelta)..MaxDelta) \cup {0 - 12 * 1950, 0 - 12 * 1999 - 1}

YearSteps == ((0 - MaxDelta)..MaxDelta) \cup {1000, 0 - 1950, 0 - 1999}

AddMonthsCall ==
    pc = "idle" /\ \E date \in LibDates, months \in MonthSteps :
        Returns([op |-> "addMonths", date |-> date, months |-> months],
                addMonths(date, months))

AddYearsCall ==
    pc = "idle" /\ \E date \in LibDates, years \in YearSteps :
        Returns([op |-> "addYears", date |-> date, years |-> years],
                addYears(date, years))

\* date strings of month starts and ends, a leap day, a mid-month day and a
\* year of the first century ('0050-01-01')
DateStrings ==
    {20231231, 20240101, 20240131, 20240201, 20240229, 20240315, 500101}

\* toISODate(parseISODate(s))
RoundTripCall ==
    pc = "idle" /\ \E str \in DateStrings :
        Returns([op |-> "toISODate", dateString |-> str],
                toISODate(parseISODate(str)))

\* horizonStart on a month end, on the 1st and on the 29th of a December
SliceStarts == {NewDate(2024, 0, 31), NewDate(2024, 1, 1), NewDate(2023, 11, 29)}

\* expense events of three categories in two months of every chart, and one
\* in its 13th or 14th month
SliceEventPool ==
    {ExpenseEvent(Tenant, "expense", 20240229, 1),
     ExpenseEvent(Landlord, "expense", 20240215, 0),
     ExpenseEvent(Member, "expense", 20240229, 1),
     ExpenseEvent(Utility, "expense", 20240415, 3),
     ExpenseEvent(Tenant, "expense", 20250228, 13)}

SliceEventLists == UNION {[1..len -> SliceEventPool] : len \in 0..MaxEvents}

SlicesCall ==
    pc = "idle" /\ \E list \in SliceEventLists, start \in SliceStarts :
        Returns([op |-> "buildMonthlyCategorySlices", expenseEvents |-> list,
                 horizonStart |-> start],
                buildMonthlyCategorySlices(list, start))

MonthlyBalanceCall ==
    pc = "idle" /\ \E evts \in EventLists, bal \in StartingBalances :
        Returns([op |-> "createMonthlyBalanceByKey",
                 forecastRows |-> buildForecast(evts, bal), startingBalance |-> bal],
                createMonthlyBalanceByKey(buildForecast(evts, bal), bal))

NextLib ==
    \/ BonusCall
    \/ MetricsCall
    \/ PartitionCall
    \/ BreakdownCall
    \/ GrossFromHourlyCall
    \/ AddMonthsCall
    \/ AddYearsCall
    \/ RoundTripCall
    \/ SlicesCall
    \/ MonthlyBalanceCall

SpecLib == InitLib /\ [][NextLib]_vars

-----------------------------------------------------------------------------
(* Properties of the library functions (checked under SpecLib) *)

Returned(op) == pc = "returned" /\ args.op = op

MonthsOf(evs) == {MonthKey(evs[n].date) : n \in 1..Len(evs)}

DatesInMonth(evs, monthKey) ==
    {evs[n].date : n \in {x \in 1..Len(evs) : MonthKey(evs[x].date) = monthKey}}

\* C11: with a positive bonus amount generateBonusEvents returns one bonus
\* event per calendar month that holds an income event and none for another
\* month; the event is dated at the latest income event of its month, carries
\* the bonus amount, and the events are in ascending month order.
C11_OneBonusPerPaidMonth ==
    (Returned("generateBonusEvents") /\ IsFinite(args.config.monthlyBonusAmount)
         /\ args.config.monthlyBonusAmount.v > 0) =>
        /\ Len(returned) = Cardinality(MonthsOf(args.incomeEvents))
        /\ {returned[n].id.date : n \in 1..Len(returned)} = MonthsOf(args.incomeEvents)
        /\ \A n \in 1..Len(returned) :
              /\ returned[n].id.kind = "bonus"
              /\ returned[n].type = "income"
              /\ MonthKey(returned[n].date) = returned[n].id.date
              /\ returned[n].date \in DatesInMonth(args.incomeEvents, returned[n].id.date)
              /\ \A d \in DatesInMonth(args.incomeEvents, returned[n].id.date) :
                    d <= returned[n].date
              /\ returned[n].amount = args.config.monthlyBonusAmount.v
        /\ \A n \in 1..(Len(returned) - 1) : returned[n].id.date < returned[n + 1].id.date

C11_Witness ==
    /\ Returned("generateBonusEvents")
    /\ Len(args.incomeEvents) = 3
    /\ args.incomeEvents[1].date = 20240216
    /\ args.incomeEvents[2].date = 20240119
    /\ args.incomeEvents[3].date = 20240105
    /\ Len(returned) = 2
    /\ returned[1].date = 20240119
    /\ returned[2].date = 20240216
    /\ returned[1].amount = Money(75) + 50

-----------------------------------------------------------------------------
(* Properties of the bonus events of a forecast (checked under SpecGen) *)

RECURSIVE PayDate(_, _, _)
\* the j-th payday (from 0) of the pay schedule that starts at date
PayDate(date, frequency, j) ==
    IF frequency \in {"weekly", "biweekly"}
    THEN DateOfDayNumber(DayNumber(date) + StepDays(frequency) * j)
    ELSE IF j = 0 THEN date
    ELSE PayDate(advanceIncomeDate(date, frequency), frequency, j - 1)

\* the payday is the last one of its calendar month on the pay schedule
LastPaydayOfItsMonth(payday, frequency) ==
    LET next == advanceIncomeDate(payday, frequency)
    IN  next.y # payday.y \/ next.m # payday.m

\* C12: in the forecast of a horizon every bonus event is dated on a payday of
\* the pay schedule that is the last payday of its calendar month, also in
\* the month that contains horizonEnd.
C12_BonusOnLastPaydayOfMonth ==
    pc = "bonusDone" =>
        \A n \in 1..Len(bonusEvents) :
            \E k \in 1..Len(events) :
                LET payday == PayDate(parseISODate(config.nextPayDate),
                                      config.payFrequency, events[k].id.idx)
                IN  /\ bonusEvents[n].date = DateKey(payday)
                    /\ LastPaydayOfItsMonth(payday, config.payFrequency)

-----------------------------------------------------------------------------
(* Properties of computeNextPaydayMetrics (checked under SpecLib) *)

\* the positions of the rows dated up to (strictly before, when strict) date
RowsDated(rs, date, strict) ==
    {n \in 1..Len(rs) : IF strict THEN rs[n].date < date ELSE rs[n].date <= date}

\* C13: balanceOnNextPayday is the runningBalance of the last row dated
\* <= nextPaydayDate (startingBalance when there is none),
\* lowestBalanceBeforeNextPayday the least of startingBalance and the
\* runningBalance of the rows dated < nextPaydayDate, and
\* safeToSpendUntilNextPayday that minimum less minimumBuffer.
C13_PaydayMetrics ==
    Returned("computeNextPaydayMetrics") =>
        LET rs == args.forecastRows
            upTo == RowsDated(rs, args.nextPaydayDate, FALSE)
            before == RowsDated(rs, args.nextPaydayDate, TRUE)
            floor == {args.startingBalance} \cup {rs[n].runningBalance : n \in before}
        IN  /\ returned.nextPaydayDate = args.nextPaydayDate
            /\ returned.balanceOnNextPayday =
                  (IF upTo = {} THEN args.startingBalance
                   ELSE rs[CHOOSE n \in upTo : \A x \in upTo : x <= n].runningBalance)
            /\ returned.lowestBalanceBeforeNextPayday \in floor
            /\ \A b \in floor : returned.lowestBalanceBeforeNextPayday <= b
            /\ returned.safeToSpendUntilNextPayday =
                  returned.lowestBalanceBeforeNextPayday - args.minimumBuffer

C13_Witness ==
    /\ Returned("computeNextPaydayMetrics")
    /\ Len(args.forecastRows) = 3
    /\ args.nextPaydayDate = 20240131
    /\ args.forecastRows[1].date < 20240131
    /\ args.forecastRows[3].date = 20240131
    /\ args.forecastRows[3].type = "expense"
    /\ returned.balanceOnNextPayday = args.forecastRows[3].runningBalance
    /\ returned.balanceOnNextPayday < returned.lowestBalanceBeforeNextPayday
    /\ returned.lowestBalanceBeforeNextPayday < args.startingBalance
    /\ returned.safeToSpendUntilNextPayday < 0

-----------------------------------------------------------------------------
(* Properties of the event amounts (checked under SpecGen) *)

\* C14: every event of generateIncomeEvents, generateBonusEvents and
\* generateExpenseEvents has an amount >= 0.
C14_AmountsNonNegative ==
    /\ \A n \in 1..Len(events) : events[n].amount >= 0
    /\ \A n \in 1..Len(bonusEvents) : bonusEvents[n].amount >= 0

-----------------------------------------------------------------------------
(* Properties of partitionExpensesByStatus (checked under SpecLib) *)

RECURSIVE WalkReaches(_, _, _, _, _)
\* one of the walk dates j..limit-1 lies on or after from
WalkReaches(date, repeat, from, j, limit) ==
    IF j >= limit THEN FALSE
    ELSE IF DateGE(date, from) THEN TRUE
    ELSE WalkReaches(advanceExpenseDate(date, repeat), repeat, from, j + 1, limit)

\* the number of walk dates generateExpenseEvents visits at most
WalkLimit(e) ==
    IF IsFinite(MaxOccurrences(e)) THEN MinInt(MaxOccurrences(e).v, MaxIterations)
    ELSE MaxIterations

\* generateExpenseEvents, run for the expense from the reference date without
\* a horizon end, emits an event
GeneratesFrom(e, from) ==
    IF UsesVariableDates(e)
    THEN \E n \in 1..Len(e.variableDueDates) :
             DateGE(parseISODate(e.variableDueDates[n]), from)
    ELSE LET anchor == parseISODate(e.firstDueDate)
         IN  IF ~isValidDate(anchor) THEN FALSE
             ELSE IF e.repeat \in {"weekly", "biweekly"}
             THEN LET gap == DayNumber(from) - DayNumber(anchor)
                      first == MaxInt(0, 0 - ((0 - gap) \div StepDays(e.repeat)))
                  IN  first < WalkLimit(e)
             ELSE WalkReaches(anchor, e.repeat, from, 0, WalkLimit(e))

\* C15: active holds, in input order, exactly the expenses for which the
\* generation walk from the reference date (no horizon end) has an occurrence
\* on or after that date, and finished the others.
C15_ActiveIffGenerated ==
    Returned("partitionExpensesByStatus") =>
        LET Gen(e) == GeneratesFrom(e, args.fromDate)
            NotGen(e) == ~GeneratesFrom(e, args.fromDate)
        IN  /\ returned.active = SelectSeq(args.expenses, Gen)
            /\ returned.finished = SelectSeq(args.expenses, NotGen)

-----------------------------------------------------------------------------
(* Properties of the pay computation (checked under SpecLib) *)

\* the gross pay of a calculate-mode config: the direct literal or the
\* hourly-derived amount, per grossInputMode
GrossOf(cfg) ==
    IF cfg.grossInputMode = "hourly"
    THEN computeGrossPayFromHourly(cfg.payFrequency, cfg.hourlyRate, cfg.hoursPerWeek)
    ELSE cfg.grossPayAmount

\* value is a finite number >= 0
Counts(value) == IsFinite(value) /\ value.v >= 0

RECURSIVE LinesTotal(_, _, _)
\* the sum over the lines 1..n of value (fixed) or value / 100 x gross
\* (percentOfGross), a negative or non-finite value counting 0
LinesTotal(lines, gross, n) ==
    IF n = 0 THEN 0
    ELSE LinesTotal(lines, gross, n - 1)
         + (IF ~Counts(lines[n].value) THEN 0
            ELSE IF lines[n].type = "fixed" THEN lines[n].value.v
            ELSE (lines[n].value.v * gross) \div 100)

\* amount is a whole number of cents nearest to exact
NearestCent(amount, exact) ==
    /\ amount % 100 = 0
    /\ 2 * (amount - exact) <= 100
    /\ 2 * (exact - amount) <= 100

\* C16: in calculate mode with a finite gross > 0 and a finite loan repayment
\* netPay is gross - (pretaxTotal + taxesTotal + posttaxTotal + max(0, loan))
\* rounded to the cent, each total summing value (fixed) or value/100 x gross
\* (percentOfGross) over its lines, a negative or non-finite value counting 0.
C16_NetPayIsGrossLessDeductions ==
    (Returned("computeNetPayBreakdown") /\ args.config.paycheckInputMode = "calculate"
         /\ IsFinite(GrossOf(args.config)) /\ GrossOf(args.config).v > 0
         /\ IsFinite(args.config.loanRepaymentAmount)) =>
        LET cfg == args.config
            gross == GrossOf(cfg).v
            pretax == LinesTotal(cfg.pretaxDeductions, gross, Len(cfg.pretaxDeductions))
            taxes == LinesTotal(cfg.taxesWithheld, gross, Len(cfg.taxesWithheld))
            posttax == LinesTotal(cfg.posttaxDeductions, gross, Len(cfg.posttaxDeductions))
            loan == MaxInt(0, cfg.loanRepaymentAmount.v)
        IN  /\ IsFinite(returned.netPay)
            /\ NearestCent(returned.netPay.v, gross - (pretax + taxes + posttax + loan))
            /\ IsFinite(returned.pretaxTotal) /\ NearestCent(returned.pretaxTotal.v, pretax)
            /\ IsFinite(returned.taxesTotal) /\ NearestCent(returned.taxesTotal.v, taxes)
            /\ IsFinite(returned.posttaxTotal) /\ NearestCent(returned.posttaxTotal.v, posttax)

C16_Witness ==
    /\ Returned("computeNetPayBreakdown")
    /\ args.config.paycheckInputMode = "calculate"
    /\ args.config.grossInputMode = "hourly"
    /\ args.config.payFrequency = "semimonthly"
    /\ args.config.pretaxDeductions = SomeLines
    /\ args.config.taxesWithheld = SomeLines
    /\ Len(args.config.posttaxDeductions) = 2
    /\ args.config.loanRepaymentAmount = Num(0 - Money(10))
    /\ returned.grossPay = Num(Money(1733) + 3300)
    /\ returned.pretaxTotal = Num(Money(386) + 6700)
    /\ returned.posttaxTotal = Num(Money(213) + 3300)
    /\ returned.netPay = Num(Money(746) + 6600)

\* the six fields of a breakdown other than grossPay
Withheld(b) ==
    <<b.pretaxTotal, b.taxesTotal, b.posttaxTotal, b.loanRepaymentAmount,
      b.totalWithheldDeducted, b.netPay>>

\* C17: in calculate mode with a gross pay (direct literal or hourly-derived)
\* that is unset, non-finite or <= 0, every field other than grossPay is
\* not-a-number, whatever the deduction lines are.
C17_NoGrossNoBreakdown ==
    (Returned("computeNetPayBreakdown") /\ args.config.paycheckInputMode = "calculate"
         /\ (~IsFinite(GrossOf(args.config)) \/ GrossOf(args.config).v <= 0)) =>
        Withheld(returned) = <<NaN, NaN, NaN, NaN, NaN, NaN>>

C17_Witness ==
    /\ Returned("computeNetPayBreakdown")
    /\ args.config.paycheckInputMode = "calculate"
    /\ args.config.grossInputMode = "hourly"
    /\ args.config.hourlyRate = Num(40)
    /\ args.config.grossPayAmount = Num(Money(2000))
    /\ args.config.netPayAmount = Num(Money(1500) + 75)
    /\ args.config.taxesWithheld = SomeLines
    /\ returned.grossPay = Num(0)
    /\ returned.netPay = NaN

\* C18: in net mode the five totals are 0 and netPay is the literal net amount
\* rounded to the cent (not-a-number when it is unset), whatever the gross,
\* hourly, deduction, tax and loan fields are.
C18_NetModeIsTheLiteral ==
    (Returned("computeNetPayBreakdown") /\ args.config.paycheckInputMode = "net") =>
        /\ returned.pretaxTotal = Num(0)
        /\ returned.taxesTotal = Num(0)
        /\ returned.posttaxTotal = Num(0)
        /\ returned.loanRepaymentAmount = Num(0)
        /\ returned.totalWithheldDeducted = Num(0)
        /\ args.config.netPayAmount \in {Null, Undefined} => returned.netPay = NaN
        /\ IsFinite(args.config.netPayAmount) =>
              /\ IsFinite(returned.netPay)
              /\ NearestCent(returned.netPay.v, args.config.netPayAmount.v)

C18_Witness ==
    /\ Returned("computeNetPayBreakdown")
    /\ args.config.paycheckInputMode = "net"
    /\ args.config.netPayAmount = Num(Money(1500) + 75)
    /\ args.config.grossPayAmount = Num(Money(2000))
    /\ args.config.taxesWithheld = SomeLines
    /\ args.config.loanRepaymentAmount = Num(Money(25))
    /\ returned.netPay = Num(Money(1500) + 100)

\* value is missing, non-finite or <= 0
Unusable(value) == ~IsFinite(value) \/ value.v <= 0

\* C19: computeGrossPayFromHourly is not-a-number when hourlyRate or
\* hoursPerWeek is missing, non-finite or <= 0; otherwise, with
\* w = hourlyRate x hoursPerWeek, it is w (weekly), 2w (biweekly), 52w/24
\* (semimonthly) or 52w/12 (monthly) rounded to the nearest cent; semimonthly
\* at rate 20 and 40 hours gives 1733.33.
C19_GrossFromHourly ==
    Returned("computeGrossPayFromHourly") =>
        IF Unusable(args.hourlyRate) \/ Unusable(args.hoursPerWeek)
        THEN returned = NaN
        ELSE LET w == args.hourlyRate.v * args.hoursPerWeek.v
                 num == CASE args.payFrequency = "weekly" -> w
                          [] args.payFrequency = "biweekly" -> 2 * w
                          [] OTHER -> 52 * w
                 den == CASE args.payFrequency = "semimonthly" -> 24
                          [] args.payFrequency = "monthly" -> 12
                          [] OTHER -> 1
             IN  /\ IsFinite(returned)
                 /\ returned.v % 100 = 0
                 /\ 2 * (den * returned.v - num) <= 100 * den
                 /\ 2 * (num - den * returned.v) <= 100 * den
                 /\ (args.payFrequency = "semimonthly" /\ args.hourlyRate = Num(Money(20))
                         /\ args.hoursPerWeek = Num(40))
                       => returned = Num(Money(1733) + 3300)

C19_Witness ==
    /\ Returned("computeGrossPayFromHourly")
    /\ args.payFrequency = "monthly"
    /\ args.hourlyRate = Num(Money(20))
    /\ args.hoursPerWeek = Num(40)
    /\ returned = Num(Money(3466) + 6700)

-----------------------------------------------------------------------------
(* Properties of lib/date (checked under SpecLib) *)

\* months since year 0 of the calendar month of a date
MonthNumber(date) == date.y * 12 + (date.m - 1)

\* the date lies in the month with the given number, on the day-of-month
\* wanted when that month has it and else on the month's last day
InMonthOnDay(date, monthNumber, day) ==
    /\ isValidDate(date)
    /\ MonthNumber(date) = monthNumber
    /\ date.d = MinInt(day, DaysInMonth(date.y, date.m))

\* C20: addMonths(d, n) lies in the calendar month n months after d's and
\* addYears(d, n) in the same month n years later, on d's day-of-month when
\* the month has it and else on its last day; addMonths(2024-01-31, 1) is
\* 2024-02-29 and addMonths(2023-01-31, 1) is 2023-02-28.
C20_MonthAndYearStepsClamp ==
    /\ Returned("addMonths") =>
          /\ InMonthOnDay(returned, MonthNumber(args.date) + args.months, args.date.d)
          /\ (args.date = NewDate(2024, 0, 31) /\ args.months = 1)
                => returned = [y |-> 2024, m |-> 2, d |-> 29]
          /\ (args.date = NewDate(2023, 0, 31) /\ args.months = 1)
                => returned = [y |-> 2023, m |-> 2, d |-> 28]
    /\ Returned("addYears") =>
          InMonthOnDay(returned, MonthNumber(args.date) + 12 * args.years, args.date.d)

-----------------------------------------------------------------------------
(* Properties of the date strings (checked under SpecLib) *)

\* C21: toISODate(parseISODate(s)) = s for every valid date string s, whatever
\* the runtime's offset from UTC is.
C21_DateStringRoundTrip ==
    Returned("toISODate") => returned = args.dateString

-----------------------------------------------------------------------------
(* Properties of lib/forecastView (checked under SpecLib) *)

\* the YYYY-MM key of the month with the given number
KeyOfMonthNumber(monthNumber) == (monthNumber \div 12) * 100 + (monthNumber % 12) + 1

RECURSIVE SumAmounts(_, _, _)
\* the sum of the amounts of the events 1..n that satisfy Keep
SumAmounts(evs, Keep(_), n) ==
    IF n = 0 THEN 0
    ELSE SumAmounts(evs, Keep, n - 1) + (IF Keep(evs[n]) THEN evs[n].amount ELSE 0)

\* C22: buildMonthlyCategorySlices returns 12 entries keyed by the 12
\* consecutive months that begin with horizonStart's month; an entry has one
\* slice per category with an expense event in its month, holding the sum of
\* those events' amounts, and no slice when the month has no event.
C22_TwelveMonthsOfSlices ==
    Returned("buildMonthlyCategorySlices") =>
        /\ Len(returned) = 12
        /\ \A n \in 1..Len(returned) :
              LET key == KeyOfMonthNumber(MonthNumber(args.horizonStart) + n - 1)
                  evs == args.expenseEvents
                  cats == {evs[x].category :
                              x \in {y \in 1..Len(evs) : toMonthKey(evs[y].date) = key}}
                  slices == returned[n].slices
              IN  /\ returned[n].key = key
                  /\ {slices[x].category : x \in 1..Len(slices)} = cats
                  /\ Len(slices) = Cardinality(cats)
                  /\ \A x \in 1..Len(slices) :
                        LET InSlice(e) == /\ toMonthKey(e.date) = key
                                          /\ e.category = slices[x].category
                        IN  slices[x].amount = SumAmounts(evs, InSlice, Len(evs))

\* the positions of the rows of a month
RowsOfMonth(rs, key) == {n \in 1..Len(rs) : toMonthKey(rs[n].date) = key}

\* C23: the map has one entry per month with a row; openingBalance is the
\* runningBalance of the last row before the month (startingBalance for the
\* first month), endingBalance that of the month's last row and spent the sum
\* of its expense amounts; so a month opens at the ending balance of the
\* entry before it and endingBalance = openingBalance + income - spent.
C23_MonthlyBalances ==
    Returned("createMonthlyBalanceByKey") =>
        LET rs == args.forecastRows
            months == {toMonthKey(rs[n].date) : n \in 1..Len(rs)}
        IN  /\ {returned[n].key : n \in 1..Len(returned)} = months
            /\ Len(returned) = Cardinality(months)
            /\ \A n \in 1..Len(returned) :
                  LET at == RowsOfMonth(rs, returned[n].key)
                      first == CHOOSE x \in at : \A y \in at : x <= y
                      last == CHOOSE x \in at : \A y \in at : y <= x
                      IsExpense(r) == toMonthKey(r.date) = returned[n].key /\ r.type = "expense"
                      IsIncome(r) == toMonthKey(r.date) = returned[n].key /\ r.type = "income"
                  IN  /\ returned[n].openingBalance =
                            (IF first = 1 THEN args.startingBalance
                             ELSE rs[first - 1].runningBalance)
                      /\ returned[n].endingBalance = rs[last].runningBalance
                      /\ returned[n].spent = SumAmounts(rs, IsExpense, Len(rs))
                      /\ n > 1 => returned[n].openingBalance = returned[n - 1].endingBalance
                      /\ returned[n].endingBalance =
                            returned[n].openingBalance + SumAmounts(rs, IsIncome, Len(rs))
                                - returned[n].spent

C23_Witness ==
    /\ Returned("createMonthlyBalanceByKey")
    /\ Len(args.forecastRows) = 3
    /\ Len(returned) = 2
    /\ returned[1].spent > 0
    /\ returned[2].spent > 0
    /\ returned[2].endingBalance > returned[2].openingBalance
    /\ returned[1].openingBalance = args.startingBalance
    /\ returned[2].openingBalance < args.startingBalance

-----------------------------------------------------------------------------
(* Properties of the forecast table (checked under SpecPage) *)

\* the positions of the expense rows of a source
ExpenseRowsOf(rs, id) ==
    {n \in 1..Len(rs) : rs[n].type = "expense" /\ rs[n].sourceId = id}

\* C24: createFiniteExpenseIdSet returns exactly the ids of the expenses with
\* more than one expense row in the forecast that are eligible: those whose
\* highlightLastEvent is true or, when no expense of the list has it true,
\* every expense.
C24_FiniteExpenseIds ==
    pc = "rendered" =>
        LET list == args.expenses
            NoneOptedIn == \A n \in 1..Len(list) : list[n].highlightLastEvent # "true"
            Eligible(n) == list[n].highlightLastEvent = "true" \/ NoneOptedIn
        IN  returned.finiteExpenseIds =
                {list[n].id :
                    n \in {x \in 1..Len(list) :
                              /\ Eligible(x)
                              /\ Cardinality(ExpenseRowsOf(rows, list[x].id)) > 1}}

C24_Witness ==
    /\ pc = "rendered"
    /\ Len(args.expenses) = 2
    /\ args.expenses[1].highlightLastEvent = "false"
    /\ args.expenses[2].highlightLastEvent = "undefined"
    /\ returned.finiteExpenseIds = {args.expenses[1].id}
    /\ Cardinality(ExpenseRowsOf(rows, args.expenses[2].id)) = 1
    /\ \E n \in 1..Len(rows) : rows[n].type = "income"

\* the expense of the list a row comes from
SourceExpense(list, id) == list[CHOOSE n \in 1..Len(list) : list[n].id = id]

\* an expense with a finite number of occurrences: a single one, a
\* repeatCount, or a list of variable dates
HasFiniteOccurrences(expense) ==
    \/ expense.variableDatesEnabled
    \/ expense.repeat = "none"
    \/ IsFinite(expense.repeatCount) /\ expense.repeatCount.v > 0

\* C25: a row is flagged isLastPayment only if its source expense has a
\* finite number of occurrences and highlightLastEvent true or absent, and
\* only if no row of the same expense is dated later; rows of an unbounded
\* recurring expense are never flagged.
C25_LastPaymentOnlyOfFiniteExpense ==
    pc = "rendered" =>
        \A n \in 1..Len(returned.bandedRows) :
            LET banded == returned.bandedRows[n]
                expense == SourceExpense(args.expenses, banded.row.sourceId)
            IN  banded.isLastPayment =>
                    /\ HasFiniteOccurrences(expense)
                    /\ expense.highlightLastEvent \in {"true", "undefined"}
                    /\ \A x \in ExpenseRowsOf(rows, expense.id) :
                          rows[x].date <= banded.row.date

-----------------------------------------------------------------------------
(* Properties of the monthly walk (checked under SpecGen) *)

\* C26: in a monthly recurrence anchored on day-of-month D, the occurrence
\* after i steps lies in the i-th calendar month after the anchor's, on day
\* D when the month has it and else on the month's last day (an anchor on
\* the 31st is clamped in February and on the 31st again in March).
C26_MonthlyWalkKeepsAnchorDay ==
    /\ (pc = "incomeLoop" /\ config.payFrequency = "monthly") =>
          LET anchor == parseISODate(config.nextPayDate)
          IN  InMonthOnDay(cursor, MonthNumber(anchor) + i, anchor.d)
    /\ (pc = "expenseLoop" /\ expenses[expenseIndex].repeat = "monthly") =>
          LET anchor == parseISODate(expenses[expenseIndex].firstDueDate)
          IN  isValidDate(anchor) =>
                  InMonthOnDay(cursor, MonthNumber(anchor) + i, anchor.d)

-----------------------------------------------------------------------------
(* Properties of the status walk (checked under SpecStatus) *)

\* C27: the walk of hasUpcomingOccurrence performs at most 5000 steps before
\* it returns, whatever the expense's repeatCount and dates.
C27_StatusWalkBounded == pc = "statusLoop" => i <= MaxIterations

-----------------------------------------------------------------------------
(* Properties of the spend trend (checked under SpecPage) *)

\* the key of the calendar month before the month of a key
PrecedingMonthKey(monthKey) ==
    KeyOfMonthNumber((monthKey \div 100) * 12 + (monthKey % 100) - 2)

\* the class for a month's spent total against an earlier one
TrendOf(monthSpent, earlierSpent) ==
    IF monthSpent < earlierSpent THEN "month-spent-better"
    ELSE IF monthSpent > earlierSpent THEN "month-spent-worse"
    ELSE "month-spent-equal"

\* C28: a trend indicator is set only on the first row of a month in the
\* table, and it compares the month's spent total with that of the calendar
\* month immediately before; it is empty when that month has no rows, and on
\* every other row.
C28_TrendAgainstPrecedingMonth ==
    pc = "rendered" =>
        \A n \in 1..Len(returned.bandedRows) :
            LET banded == returned.bandedRows[n]
                first == n = 1 \/ returned.bandedRows[n - 1].monthKey # banded.monthKey
                before == PrecedingMonthKey(banded.monthKey)
                SpentIn(key) ==
                    LET Spends(r) == toMonthKey(r.date) = key /\ r.type = "expense"
                    IN  SumAmounts(rows, Spends, Len(rows))
            IN  banded.spentTrendClass =
                    (IF first /\ RowsOfMonth(rows, before) # {}
                     THEN TrendOf(SpentIn(banded.monthKey), SpentIn(before))
                     ELSE "")

-----------------------------------------------------------------------------
(* Properties of cloud autosave (checked under SpecSync) *)

\* C29: whenever a run of the autosave effect writes the cloud row, the row's
\* updated_at at that moment is not newer than the browser's
\* lastLoadedCloudUpdatedAt or the user confirmed the overwrite, and the run
\* did not find both its lastLoadedCloudUpdatedAt and the remote timestamp
\* missing; under every interleaving with another browser's pushes and with
\* the browser's other runs.
C29_AutosaveNeverOverwritesSilently ==
    [][\A r \in 1..MaxRuns :
          (runs[r].pc = "pushing" /\ runs'[r].pc = "pushed") =>
              /\ cloudUpdatedAt <= lastLoadedCloudUpdatedAt \/ runs[r].confirmed
              /\ ~(runs[r].lastLoadedCloudUpdatedAt = 0 /\ runs[r].remoteMeta = 0)]_vars

-----------------------------------------------------------------------------
(* Properties of the backups (checked under SpecBackup) *)

=============================================================================
